---- MODULE Spec2Model ----
(***************************************************************************)
(* A model of the dsgrid registry: the S3 lock-file protocol               *)
(* (dsgrid/cloud/s3_storage_interface.py), config serialization            *)
(* (dsgrid/config/config_base.py) and the RegistryManager operations       *)
(* (dsgrid/registry/registry_manager.py).                                  *)
(*                                                                         *)
(* Three specifications share the module's variables:                      *)
(*   SpecLock  the lock-file protocol, callers interleaved per S3 call     *)
(*   SpecSer   ConfigBase / ConfigWithDataFilesBase.serialize              *)
(*   SpecReg   RegistryManager instances sharing one registry directory    *)
(* Each leaves the other groups of variables at their initial values.      *)
(***************************************************************************)
EXTENDS Integers, Sequences, FiniteSets, TLC

(***************************************************************************)
(* Bounds of the model.                                                    *)
(***************************************************************************)
\* Number of lock-file writes (each write takes a fresh timestamp).
MaxClock == 2
\* Number of single-file fields (data_file_fields) of a config.
MaxDataFields == 1
\* Number of files in the multiple-file field (data_files_fields) of a config.
MaxDataFiles == 1
\* Number of RegistryManager calls in one behaviour.
MaxCalls == 4
\* Number of register_dimension calls in one behaviour of SpecDim.
MaxDimCalls == 2
\* Number of characters of a config id.
MaxIdLen == 2
\* The last hour of a time range, and the longest frequency in hours.
MaxTime == 4
MaxFrequency == 2
MaxMajor == 10
MaxUpgradeCalls == 2
MaxMtime == 2
MaxSerCalls == 4
MaxStatusCalls == 3
MaxStepCalls == 3

(***************************************************************************)
(* Part 1: the lock-file protocol, S3StorageInterface.                     *)
(***************************************************************************)
VARIABLES
    lockfile,   \* lock path -> contents of the file there, or NoFile
    clock,      \* datetime.now(), as the number of lock files written so far
    ident,      \* caller -> (uuid, username) of its S3StorageInterface
    pc,         \* caller -> position inside make_lock
    cpath,      \* caller -> path of the make_lock call in progress
    pending,    \* caller -> exception travelling into make_lock's finally
    entered,    \* caller -> the current make_lock call reached its yield
    overlap,    \* caller -> callers that were inside their scope on the same
                \*           path, under another identity, during the whole of
                \*           this make_lock call so far (history)
    alone,      \* caller -> no other caller was inside make_lock at any time
                \*           during this make_lock call so far (history)
    cforce,     \* caller -> the force argument of its remove_lock in progress
    csaw,       \* caller -> the file its remove_lock in progress has read
    ret         \* the last call that returned or raised, with the file it
                \* read at its path (saw) and the file it left there (left)

lockVars == <<lockfile, clock, ident, pc, cpath, pending, entered, overlap, alone,
              cforce, csaw, ret>>

\* Part 2: a destination directory that configs are serialized into.
VARIABLES
    dirFiles,   \* file name in the destination directory -> its file, or NoFile
    serRet,     \* the last serialize call: its arguments, the directory it
                \* found (before) and its outcome
    cmpCache,   \* filecmp._cache of the process: the comparisons it has made
                \* by contents, each under the two paths and stat signatures
    serCalls    \* the number of serialize calls made so far

serVars == <<dirFiles, serRet, cmpCache, serCalls>>

\* The registry directory and the RegistryManager instances (Part 3).
VARIABLES
    projHeader,   \* project_id -> projects/<id>/registry.toml, or NoFile
    projSnap,     \* project_id -> (version directory -> its project.toml)
    projDims,     \* project_id -> the version directories that hold a
                  \* "dimensions" directory
    dsHeader,     \* dataset_id -> datasets/<id>/registry.toml, or NoFile
    dsSnap,       \* dataset_id -> (version directory -> its dataset.toml)
    mProjectIds,  \* manager -> its _project_ids
    mDatasetIds,  \* manager -> its _dataset_ids
    mProjects,    \* manager -> its _projects cache: (id, version) -> config
    dimHeader,    \* (type, id) -> dimensions/<type>/<id>/registry.toml, or NoFile
    dimSnap,      \* (type, id) -> (version directory -> its dimension.toml)
    regRet,       \* the last RegistryManager call that returned or raised
    calls         \* number of RegistryManager calls made so far

projVars == <<projHeader, projSnap, projDims, dsHeader, dsSnap, mProjectIds, mDatasetIds,
              mProjects, dimHeader, dimSnap, regRet, calls>>

\* One RegistryManager call taken statement by statement (Part 4).
VARIABLES
    wcall,        \* manager -> its call in progress: the local variables and
                  \* the statements still to run, or NoCall
    wlog          \* manager -> what its last call has done so far, in order:
                  \* validation, mkdir, file writes, sync
stepVars == <<wcall, wlog>>

\* The dimension manager that auto_register_dimensions works on (Part 5).
VARIABLES
    dimRegistry,  \* the registered dimensions: id, name, type, current version
    resRet        \* the last auto_register_dimensions call: its arguments, the
                  \* registry it found and its outcome
resolveVars == <<dimRegistry, resRet>>

\* A call of a function that reads nothing but its arguments (Part 6).
VARIABLES
    fnArgs,       \* the arguments: a config id, or a DatetimeRange
    fnRet         \* what the last call returned or raised
fnVars == <<fnArgs, fnRet>>

vars == <<lockVars, serVars, projVars, stepVars, resolveVars, fnVars>>

\* What an action of one part leaves alone.
notLock == <<serVars, projVars, stepVars, resolveVars, fnVars>>
notSer == <<lockVars, projVars, stepVars, resolveVars, fnVars>>

\* A path holds no file (the empty tuple) or one file (a 1-tuple of its contents).
NoFile == <<>>
TheFile(contents) == <<contents>>
Contents(f) == f[1]

Callers == {"A", "B"}
\* The positions of a caller that is inside a make_lock call.
InMakeLock == {"check", "check_read", "write", "inside", "finally", "finally_read",
               "finally_unlink"}

\* (uuid, username) pairs: two processes of one user, and another user.
Identities ==
    { [uuid |-> "u1", username |-> "alice"],
      [uuid |-> "u2", username |-> "alice"],
      [uuid |-> "u3", username |-> "bob"] }

S3Prefix == "s3:/nrel-dsgrid-registry/"

\* Lock paths as (prefix, parent directory below the prefix, suffix).
ConfigLock == [prefix |-> S3Prefix, dir |-> "configs/.locks", suffix |-> ".lock"]
DataLock == [prefix |-> "/", dir |-> "data/.locks", suffix |-> ".lock"]
StrayLock == [prefix |-> "/", dir |-> "configs/dimensions", suffix |-> ".lock"]
NotALock == [prefix |-> S3Prefix, dir |-> "configs/.locks", suffix |-> ".toml"]

LockPaths == {ConfigLock, DataLock, StrayLock, NotALock}

\* check_valid_lockfile's relative_path: the parent with a leading
\* "s3:/nrel-dsgrid-registry/" or "/" removed, and otherwise left whole.
RelativeParent(p) ==
    IF p.prefix = S3Prefix \/ p.prefix = "/"
    THEN <<p.dir>>
    ELSE <<p.prefix, p.dir>>

\* check_valid_lockfile: the exception it raises, or "none" when it returns
\* True.  The last branch builds a DSGMakeLockError and does not raise it.
check_valid_lockfile(p) ==
    IF p.suffix # ".lock" THEN "DSGMakeLockError"
    ELSE IF RelativeParent(p) = <<"configs/.locks">> THEN "none"
    ELSE IF RelativeParent(p) = <<"data/.locks">> THEN "AssertionError"
    ELSE "none"

\* The ownership test of check_lock: uuid or username differs.
CheckLockMismatch(id, contents) ==
    ~(id.uuid = contents.uuid) \/ ~(id.username = contents.username)

\* filepath.exists(), one call of the store.
exists(p, files) == files[p] # NoFile

\* read_lock: read_text of the object, a second call of the store.  The
\* object may have been removed since exists(); reading it then fails.
read_lock(p, files) ==
    IF files[p] = NoFile
    THEN [exc |-> "FileNotFoundError", file |-> NoFile]
    ELSE [exc |-> "none", file |-> files[p]]

\* check_lock up to its exists(): the exception of check_valid_lockfile,
\* "none" when there is no file, "read" when the file is read next.
check_lock(p, files) ==
    IF check_valid_lockfile(p) # "none" THEN check_valid_lockfile(p)
    ELSE IF exists(p, files) THEN "read" ELSE "none"

\* The rest of check_lock: read_lock and the ownership test.
check_lock_read(id, p, files) ==
    LET r == read_lock(p, files) IN
    IF r.exc # "none" THEN r.exc
    ELSE IF CheckLockMismatch(id, Contents(r.file)) THEN "DSGRegistryLockError"
    ELSE "none"

\* The ownership test of remove_lock: uuid and username both differ.
RemoveLockMismatch(id, contents) ==
    ~(id.uuid = contents.uuid) /\ ~(id.username = contents.username)

\* remove_lock after exists() was true: read_lock, then the ownership test
\* unless forced.
remove_lock_read(id, p, force, files) ==
    LET r == read_lock(p, files) IN
    IF r.exc # "none" THEN r.exc
    ELSE IF ~force /\ RemoveLockMismatch(id, Contents(r.file)) THEN "DSGRegistryLockError"
    ELSE "none"

\* An unlink that leaves the object in place.
remove_lock_no_unlink(p, files) == [files |-> files, exc |-> "none"]

\* filepath.unlink(), a third call of the store: whatever is at the path
\* now is removed; removing a missing object fails.
unlink(p, files) ==
    IF files[p] = NoFile
    THEN [files |-> files, exc |-> "FileNotFoundError"]
    ELSE [files |-> [files EXCEPT ![p] = NoFile], exc |-> "none"]

\* The text make_lock writes.
LockText(id, now) ==
    [username |-> id.username, uuid |-> id.uuid, timestamp |-> now]

NoRet == [caller |-> "none", op |-> "none", path |-> ConfigLock, force |-> FALSE,
          exc |-> "none", entered |-> FALSE, saw |-> NoFile, left |-> NoFile]

\* A caller that leaves its scope is no longer "inside during the whole call"
\* of anyone.
Forget(c) == [d \in Callers |-> overlap[d] \ {c}]

\* make_lock is called: the generator starts.
MakeLockCall(c, p) ==
    /\ pc[c] = "idle"
    /\ pc' = [pc EXCEPT ![c] = "check"]
    /\ cpath' = [cpath EXCEPT ![c] = p]
    /\ pending' = [pending EXCEPT ![c] = "none"]
    /\ entered' = [entered EXCEPT ![c] = FALSE]
    /\ overlap' = [overlap EXCEPT ![c] =
                     {d \in Callers \ {c} :
                        pc[d] = "inside" /\ cpath[d] = p /\ ident[d] # ident[c]}]
    /\ alone' = [d \in Callers |->
                   IF d = c THEN \A e \in Callers \ {c} : pc[e] \notin InMakeLock
                   ELSE FALSE]
    /\ UNCHANGED <<lockfile, clock, ident, cforce, csaw, ret>>
    /\ UNCHANGED notLock

\* make_lock, line 84: self.check_lock(path), up to filepath.exists().
MakeLockCheck(c) ==
    /\ pc[c] = "check"
    /\ LET e == check_lock(cpath[c], lockfile) IN
         /\ pc' = [pc EXCEPT ![c] = CASE e = "read" -> "check_read"
                                      [] e = "none" -> "write"
                                      [] OTHER -> "finally"]
         /\ pending' = [pending EXCEPT ![c] = IF e = "read" THEN "none" ELSE e]
    /\ UNCHANGED <<lockfile, clock, ident, cpath, entered, overlap, alone, cforce, csaw, ret>>
    /\ UNCHANGED notLock

\* check_lock, lines 43-50: read_lock and the ownership test.
MakeLockCheckRead(c) ==
    /\ pc[c] = "check_read"
    /\ LET e == check_lock_read(ident[c], cpath[c], lockfile) IN
         /\ pc' = [pc EXCEPT ![c] = IF e = "none" THEN "write" ELSE "finally"]
         /\ pending' = [pending EXCEPT ![c] = e]
    /\ UNCHANGED <<lockfile, clock, ident, cpath, entered, overlap, alone, cforce, csaw, ret>>
    /\ UNCHANGED notLock

\* make_lock, lines 85-91: write_text, then yield into the guarded block.
MakeLockWrite(c) ==
    /\ pc[c] = "write"
    /\ clock < MaxClock
    /\ clock' = clock + 1
    /\ lockfile' = [lockfile EXCEPT ![cpath[c]] = TheFile(LockText(ident[c], clock'))]
    /\ pc' = [pc EXCEPT ![c] = "inside"]
    /\ entered' = [entered EXCEPT ![c] = TRUE]
    /\ UNCHANGED <<ident, cpath, pending, overlap, alone, cforce, csaw, ret>>
    /\ UNCHANGED notLock

\* The guarded block completes normally.
BodyReturn(c) ==
    /\ pc[c] = "inside"
    /\ pc' = [pc EXCEPT ![c] = "finally"]
    /\ overlap' = Forget(c)
    /\ UNCHANGED <<lockfile, clock, ident, cpath, pending, entered, alone, cforce, csaw, ret>>
    /\ UNCHANGED notLock

\* The guarded block raises.
BodyRaise(c) ==
    /\ pc[c] = "inside"
    /\ pc' = [pc EXCEPT ![c] = "finally"]
    /\ pending' = [pending EXCEPT ![c] = "BodyError"]
    /\ overlap' = Forget(c)
    /\ UNCHANGED <<lockfile, clock, ident, cpath, entered, alone, cforce, csaw, ret>>
    /\ UNCHANGED notLock

\* The call of caller c ends: with exception exc, having read the file saw,
\* and leaving the path as the store holds it after the step (files).
Return(c, op, exc, saw, files) ==
    /\ ret' = [caller |-> c, op |-> op, path |-> cpath[c], force |-> cforce[c],
               exc |-> exc, entered |-> entered[c],
               saw |-> saw, left |-> files[cpath[c]]]
    /\ pc' = [pc EXCEPT ![c] = "idle"]
    /\ pending' = [pending EXCEPT ![c] = "none"]
    /\ entered' = [entered EXCEPT ![c] = FALSE]
    /\ cforce' = [cforce EXCEPT ![c] = FALSE]
    /\ csaw' = [csaw EXCEPT ![c] = NoFile]
    /\ alone' = [alone EXCEPT ![c] = FALSE]

\* make_lock, lines 92-93: finally: self.remove_lock(path), up to
\* filepath.exists().  Without a file remove_lock returns and the exception
\* that was travelling, if any, goes on.
MakeLockFinally(c) ==
    /\ pc[c] = "finally"
    /\ IF exists(cpath[c], lockfile)
       THEN /\ pc' = [pc EXCEPT ![c] = "finally_read"]
            /\ UNCHANGED <<pending, entered, overlap, alone, cforce, csaw, ret>>
       ELSE /\ Return(c, "make_lock", pending[c], NoFile, lockfile)
            /\ overlap' = [overlap EXCEPT ![c] = {}]
    /\ UNCHANGED <<lockfile, clock, ident, cpath>>
    /\ UNCHANGED notLock

\* remove_lock inside the finally, lines 102-110: read_lock and the
\* ownership test.  An exception of remove_lock replaces the one that was
\* travelling.
MakeLockFinallyRead(c) ==
    /\ pc[c] = "finally_read"
    /\ LET e == remove_lock_read(ident[c], cpath[c], FALSE, lockfile) IN
         IF e = "none"
         THEN /\ pc' = [pc EXCEPT ![c] = "finally_unlink"]
              /\ csaw' = [csaw EXCEPT ![c] = lockfile[cpath[c]]]
              /\ UNCHANGED <<pending, entered, overlap, alone, cforce, ret>>
         ELSE /\ Return(c, "make_lock", e, lockfile[cpath[c]], lockfile)
              /\ overlap' = [overlap EXCEPT ![c] = {}]
    /\ UNCHANGED <<lockfile, clock, ident, cpath>>
    /\ UNCHANGED notLock

\* remove_lock inside the finally, line 111: filepath.unlink().
MakeLockFinallyUnlink(c) ==
    /\ pc[c] = "finally_unlink"
    /\ LET r == unlink(cpath[c], lockfile) IN
         /\ lockfile' = r.files
         /\ Return(c, "make_lock", IF r.exc # "none" THEN r.exc ELSE pending[c],
                   csaw[c], r.files)
    /\ overlap' = [overlap EXCEPT ![c] = {}]
    /\ UNCHANGED <<clock, ident, cpath>>
    /\ UNCHANGED notLock

\* check_lock called on its own, up to filepath.exists().
CheckLockCall(c, p) ==
    /\ pc[c] = "idle"
    /\ LET e == check_lock(p, lockfile) IN
         IF e = "read"
         THEN /\ pc' = [pc EXCEPT ![c] = "check_lock_read"]
              /\ cpath' = [cpath EXCEPT ![c] = p]
              /\ UNCHANGED ret
         ELSE /\ ret' = [caller |-> c, op |-> "check_lock", path |-> p,
                         force |-> FALSE, exc |-> e, entered |-> FALSE,
                         saw |-> NoFile, left |-> lockfile[p]]
              /\ UNCHANGED <<pc, cpath>>
    /\ UNCHANGED <<lockfile, clock, ident, pending, entered, overlap, alone, cforce, csaw>>
    /\ UNCHANGED notLock

\* check_lock called on its own, lines 43-50.
CheckLockRead(c) ==
    /\ pc[c] = "check_lock_read"
    /\ Return(c, "check_lock", check_lock_read(ident[c], cpath[c], lockfile),
              lockfile[cpath[c]], lockfile)
    /\ UNCHANGED <<lockfile, clock, ident, cpath, overlap>>
    /\ UNCHANGED notLock

\* remove_lock called on its own, with or without force, up to
\* filepath.exists().
RemoveLockCall(c, p, force) ==
    /\ pc[c] = "idle"
    /\ IF exists(p, lockfile)
       THEN /\ pc' = [pc EXCEPT ![c] = "remove_lock_read"]
            /\ cpath' = [cpath EXCEPT ![c] = p]
            /\ cforce' = [cforce EXCEPT ![c] = force]
            /\ UNCHANGED ret
       ELSE /\ ret' = [caller |-> c, op |-> "remove_lock", path |-> p,
                       force |-> force, exc |-> "none", entered |-> FALSE,
                       saw |-> NoFile, left |-> NoFile]
            /\ UNCHANGED <<pc, cpath, cforce>>
    /\ UNCHANGED <<lockfile, clock, ident, pending, entered, overlap, alone, csaw>>
    /\ UNCHANGED notLock

\* remove_lock called on its own, lines 102-110.
RemoveLockRead(c) ==
    /\ pc[c] = "remove_lock_read"
    /\ LET e == remove_lock_read(ident[c], cpath[c], cforce[c], lockfile) IN
         IF e = "none"
         THEN /\ pc' = [pc EXCEPT ![c] = "remove_lock_unlink"]
              /\ csaw' = [csaw EXCEPT ![c] = lockfile[cpath[c]]]
              /\ UNCHANGED <<pending, entered, alone, cforce, ret>>
         ELSE Return(c, "remove_lock", e, lockfile[cpath[c]], lockfile)
    /\ UNCHANGED <<lockfile, clock, ident, cpath, overlap>>
    /\ UNCHANGED notLock

\* remove_lock called on its own, line 111.  A forced release ends every
\* "inside during the whole call" on the path.
RemoveLockUnlink(c) ==
    /\ pc[c] = "remove_lock_unlink"
    /\ LET r == unlink(cpath[c], lockfile) IN
         /\ lockfile' = r.files
         /\ Return(c, "remove_lock", r.exc, csaw[c], r.files)
    /\ overlap' = [d \in Callers |->
                     IF cforce[c] /\ cpath[d] = cpath[c] THEN {} ELSE overlap[d]]
    /\ UNCHANGED <<clock, ident, cpath>>
    /\ UNCHANGED notLock

NextLock ==
    \/ \E c \in Callers, p \in LockPaths : MakeLockCall(c, p)
    \/ \E c \in Callers : MakeLockCheck(c)
    \/ \E c \in Callers : MakeLockCheckRead(c)
    \/ \E c \in Callers : MakeLockWrite(c)
    \/ \E c \in Callers : BodyReturn(c)
    \/ \E c \in Callers : BodyRaise(c)
    \/ \E c \in Callers : MakeLockFinally(c)
    \/ \E c \in Callers : MakeLockFinallyRead(c)
    \/ \E c \in Callers : MakeLockFinallyUnlink(c)
    \/ \E c \in Callers, p \in LockPaths : CheckLockCall(c, p)
    \/ \E c \in Callers : CheckLockRead(c)
    \/ \E c \in Callers, p \in LockPaths, force \in BOOLEAN : RemoveLockCall(c, p, force)
    \/ \E c \in Callers : RemoveLockRead(c)
    \/ \E c \in Callers : RemoveLockUnlink(c)


(***************************************************************************)
(* Part 2: ConfigBase.serialize and ConfigWithDataFilesBase.serialize.     *)
(***************************************************************************)

ConfigFilename == "config.toml"

\* Source data files, named in a config relative to src_dir.
SrcFiles ==
    { [dir |-> "", name |-> "a.csv"],
      [dir |-> "sub", name |-> "a.csv"],
      [dir |-> "", name |-> "b.csv"] }

\* Path(orig_file).name: leading directories are dropped.
Basename(f) == f.name

\* What the source file holds (two of the files hold the same rows).
SrcContents(f) == IF f.dir = "sub" THEN "rows2" ELSE "rows1"
\* os.stat of a file: st_size of its contents (the two contents have the same
\* length) and st_mtime, a time stamp of the file system.  The source files
\* carry the stamps 0 and 1; a copy is stamped with the time of the copy,
\* which may be one of these or a time that no source file carries.
Size(rows) == 5
Mtimes == 0..MaxMtime
SrcMtime(f) == IF f.dir = "sub" THEN 1 ELSE 0
\* filecmp._sig: (size, mtime); every file here is a regular file.
Sig(rows, mtime) == <<Size(rows), mtime>>
\* A data file in the destination directory: its rows and its st_mtime.
DataFile(rows, mtime) == [rows |-> rows, mtime |-> mtime]
\* shutil.copyfile(src, dst) at time now: the contents are copied, the
\* destination is stamped with the time of the copy.
copyfile(dir, f, now) ==
    [dir EXCEPT ![Basename(f)] = TheFile(DataFile(SrcContents(f), now))]
\* The key of filecmp._cache: both paths and both signatures.
CacheKey(f, dst) ==
    [f1 |-> f, f2 |-> Basename(f), s1 |-> Sig(SrcContents(f), SrcMtime(f)),
     s2 |-> Sig(Contents(dst).rows, Contents(dst).mtime)]
\* filecmp._do_cmp: the two files are read and compared.
do_cmp(f, dst) == SrcContents(f) = Contents(dst).rows
\* len(_cache) > 100 empties the cache before an outcome is stored.
CacheLimit == 100
\* filecmp.cmp(src, dst) with its default shallow=True: files of equal
\* (size, mtime) are taken to be equal without being read; otherwise files of
\* different size differ; otherwise the outcome cached under the two paths
\* and signatures is returned, and only without one are the files read and
\* the outcome stored.
filecmp(f, dst, cache) ==
    LET key == CacheKey(f, dst) IN
    IF key.s1 = key.s2 THEN [outcome |-> TRUE, cache |-> cache]
    ELSE IF key.s1[1] # key.s2[1] THEN [outcome |-> FALSE, cache |-> cache]
    ELSE IF \E e \in cache : e.key = key
    THEN [outcome |-> (CHOOSE e \in cache : e.key = key).outcome, cache |-> cache]
    ELSE [outcome |-> do_cmp(f, dst),
          cache |-> (IF Cardinality(cache) > CacheLimit THEN {} ELSE cache)
                        \cup {[key |-> key, outcome |-> do_cmp(f, dst)]}]

DirNames == {ConfigFilename} \cup {Basename(f) : f \in SrcFiles}

SeqsUpTo(S, n) == UNION {[1..k -> S] : k \in 0..n}

\* A config: its document, the files of its single-file fields in the order
\* of data_file_fields(), and the files of its multiple-file field.
Configs ==
    [doc : {"doc1"},
     single : SeqsUpTo(SrcFiles, MaxDataFields),
     multi : SeqsUpTo(SrcFiles, MaxDataFiles)]

Names(files) == [i \in DOMAIN files |-> Basename(files[i])]

\* ConfigBase.serialize: check, then write the document.
SerializeConfigBase(dir, cfg, force) ==
    IF dir[ConfigFilename] # NoFile /\ ~force
    THEN [dir |-> dir, exc |-> "DSGInvalidOperation"]
    ELSE [dir |-> [dir EXCEPT ![ConfigFilename] = TheFile(cfg)], exc |-> "none"]

\* The loop over data_file_fields(), from field i on: each destination is
\* checked and then copied before the next one is looked at.
RECURSIVE CopySingle(_, _, _, _, _)
CopySingle(dir, files, i, force, now) ==
    IF i > Len(files) THEN [dir |-> dir, exc |-> "none"]
    ELSE LET dst == Basename(files[i]) IN
         IF dir[dst] # NoFile /\ ~force
         THEN [dir |-> dir, exc |-> "DSGInvalidOperation"]
         ELSE CopySingle(copyfile(dir, files[i], now), files, i + 1, force, now)

\* The loop over the files of a multiple-file field: an existing destination
\* is an error without force; with force it is copied over only if filecmp
\* finds it different.
RECURSIVE CopyMulti(_, _, _, _, _, _)
CopyMulti(dir, files, i, force, now, cache) ==
    IF i > Len(files) THEN [dir |-> dir, exc |-> "none", cache |-> cache]
    ELSE LET dst == Basename(files[i]) IN
         IF dir[dst] # NoFile /\ ~force
         THEN [dir |-> dir, exc |-> "DSGInvalidOperation", cache |-> cache]
         ELSE IF dir[dst] = NoFile
         THEN CopyMulti(copyfile(dir, files[i], now), files, i + 1, force, now, cache)
         ELSE LET cmp == filecmp(files[i], dir[dst], cache) IN
              IF ~cmp.outcome
              THEN CopyMulti(copyfile(dir, files[i], now), files, i + 1, force, now,
                             cmp.cache)
              ELSE CopyMulti(dir, files, i + 1, force, now, cmp.cache)

\* The document ConfigWithDataFilesBase.serialize writes: the data fields
\* hold base names.
ModelData(cfg) ==
    [doc |-> cfg.doc, single |-> Names(cfg.single), multi |-> Names(cfg.multi)]

\* ConfigWithDataFilesBase.serialize.
SerializeWithDataFiles(dir, cfg, force, now, cache) ==
    IF dir[ConfigFilename] # NoFile /\ ~force
    THEN [dir |-> dir, exc |-> "DSGInvalidOperation", cache |-> cache]
    ELSE LET s == CopySingle(dir, cfg.single, 1, force, now) IN
         IF s.exc # "none" THEN [dir |-> s.dir, exc |-> s.exc, cache |-> cache]
         ELSE LET m == CopyMulti(s.dir, cfg.multi, 1, force, now, cache) IN
              IF m.exc # "none" THEN m
              ELSE [dir |-> [m.dir EXCEPT ![ConfigFilename] = TheFile(ModelData(cfg))],
                    exc |-> "none", cache |-> m.cache]

\* A config without data-file fields is serialized by ConfigBase.serialize.
SerializeBaseCall(cfg, force) ==
    /\ serCalls < MaxSerCalls
    /\ serCalls' = serCalls + 1
    /\ cfg.single = <<>> /\ cfg.multi = <<>>
    /\ LET r == SerializeConfigBase(dirFiles, ModelData(cfg), force) IN
         /\ dirFiles' = r.dir
         /\ serRet' = [op |-> "ConfigBase.serialize", force |-> force, exc |-> r.exc,
                       cfg |-> cfg, before |-> dirFiles]
    /\ UNCHANGED cmpCache
    /\ UNCHANGED notSer

\* now: the time stamp the file system gives to the files the call copies.
SerializeCall(cfg, force, now) ==
    /\ serCalls < MaxSerCalls
    /\ serCalls' = serCalls + 1
    /\ LET r == SerializeWithDataFiles(dirFiles, cfg, force, now, cmpCache) IN
         /\ dirFiles' = r.dir
         /\ cmpCache' = r.cache
         /\ serRet' = [op |-> "ConfigWithDataFilesBase.serialize", force |-> force,
                       exc |-> r.exc, cfg |-> cfg, before |-> dirFiles]
    /\ UNCHANGED notSer

\* The next call is made by a new Python process: its filecmp._cache is empty.
NewProcess ==
    /\ cmpCache # {}
    /\ cmpCache' = {}
    /\ UNCHANGED <<dirFiles, serRet, serCalls>>
    /\ UNCHANGED notSer

NextSer ==
    \/ \E cfg \in Configs, force \in BOOLEAN : SerializeBaseCall(cfg, force)
    \/ \E cfg \in Configs, force \in BOOLEAN, now \in Mtimes : SerializeCall(cfg, force, now)
    \/ NewProcess

(***************************************************************************)
(* Part 3: RegistryManager.  Managers are RegistryManager instances that   *)
(* share one registry directory.  Every operation is one action: the whole *)
(* handler, with every file it writes before it returns or raises.         *)
(* Registration records carry a date as well; it is never read back by the *)
(* code and is left out of the records here.  Config files passed by the   *)
(* caller are taken to pass the validation of their model classes and the  *)
(* resolution of their dimension references.  The remote store is not      *)
(* part of the state: a sync leaves the files of the local registry as     *)
(* they are.                                                               *)
(***************************************************************************)
Managers == {"M1", "M2"}
\* The submitter each manager's user passes (getpass.getuser() in the CLI).
Submitter(m) == IF m = "M1" THEN "alice" ELSE "bob"
ProjectIds == {"p1"}
DatasetIds == {"d1", "d2"}
LogMessages == {"log1"}

UNREGISTERED == "Unregistered"
REGISTERED == "Registered"
INITIAL_REGISTRATION == "Initial Registration"
IN_PROGRESS == "In Progress"
COMPLETE == "Complete"
PUBLISHED == "Published"
DEPRECATED == "Deprecated"
ProjectRegistryStatus ==
    {INITIAL_REGISTRATION, IN_PROGRESS, COMPLETE, PUBLISHED, DEPRECATED}
\* ProjectUpdateChecker._ALLOWED_UPDATE_STATUSES; no operation of the
\* RegistryManager constructs a ProjectUpdateChecker.
ALLOWED_UPDATE_STATUSES == {INITIAL_REGISTRATION, IN_PROGRESS, COMPLETE}
UpdateTypes == {"major", "minor", "patch"}

\* semver.VersionInfo as a triple.
VersionInfo(major) == <<major, 0, 0>>
bump_major(v) == <<v[1] + 1, 0, 0>>
bump_minor(v) == <<v[1], v[2] + 1, 0>>
\* A patch update that bumps the minor number instead.
bump_patch_as_minor(v) == <<v[1], v[2] + 1, 0>>
bump_patch(v) == <<v[1], v[2], v[3] + 1>>
\* An update that keeps the version it finds.
bump_stale(v, update_type) == v
\* The version _update_config assigns for each update_type.
Bump(v, update_type) ==
    CASE update_type = "major" -> bump_major(v)
      [] update_type = "minor" -> bump_minor(v)
      [] update_type = "patch" -> bump_patch(v)
\* VersionInfo.__lt__: precedence of major, then minor, then patch.
VersionLess(a, b) ==
    \/ a[1] < b[1]
    \/ a[1] = b[1] /\ a[2] < b[2]
    \/ a[1] = b[1] /\ a[2] = b[2] /\ a[3] < b[3]

ConfigRegistrationModel(version, submitter, log_message) ==
    [version |-> version, submitter |-> submitter, log_message |-> log_message]

\* A directory as a function from the names in it; NoDir is the empty one.
NoDir == <<>>
\* dump_data / copy_file into directory d under name n (after mkdir).
PutFile(d, n, contents) ==
    [k \in DOMAIN d \cup {n} |-> IF k = n THEN TheFile(contents) ELSE d[k]]
\* listdir of configs/projects and of configs/datasets.
ListDir(snap) == {id \in DOMAIN snap : DOMAIN snap[id] # {}}

\* A project config file: project_id, description, the datasets it declares
\* with the status written in the file, and its dimension references.
ProjectFile(p, d, decl, st, dims) ==
    [project_id |-> p, description |-> d,
     datasets |-> [x \in decl |-> st], dimensions |-> dims]
\* The files a user may pass: a plain one, one that differs from it in the
\* description only, one in the dimension references only, and one that
\* declares both datasets and already calls them registered.
ProjectConfigFiles ==
    UNION {{ProjectFile(p, "desc1", {"d1"}, UNREGISTERED, "dims1"),
            ProjectFile(p, "desc2", {"d1"}, UNREGISTERED, "dims1"),
            ProjectFile(p, "desc1", {"d1"}, UNREGISTERED, "dims2"),
            ProjectFile(p, "desc1", DatasetIds, REGISTERED, "dims1")} :
           p \in ProjectIds}
DatasetConfigFiles == [dataset_id : DatasetIds, description : {"desc1"}]

\* ProjectRegistry.has_dataset(dataset_id, status).
RegistryHasDataset(registry, dataset_id, status) ==
    /\ dataset_id \in DOMAIN registry.dataset_registries
    /\ registry.dataset_registries[dataset_id] = status
\* ProjectRegistry.set_dataset_status(dataset_id, status).
SetDatasetStatus(registry, dataset_id, status) ==
    [registry EXCEPT !.dataset_registries =
        [x \in DOMAIN @ |-> IF x = dataset_id THEN status ELSE @[x]]]
\* ProjectConfig.has_dataset(dataset_id).
ConfigHasDataset(config, dataset_id) == dataset_id \in DOMAIN config.datasets
\* A config whose dataset statuses are left as they were loaded.
KeepConfigDatasetStatus(config, dataset_id, status) == config
\* project_config.get_dataset(dataset_id).status = status.
SetConfigDatasetStatus(config, dataset_id, status) ==
    [config EXCEPT !.datasets[dataset_id] = status]

NoRegRet == [mgr |-> "none", op |-> "none", id |-> "none", exc |-> "none",
             wrote |-> FALSE, locked |-> FALSE]
\* The record of a call; locked: the config lock file existed while it ran.
RegRet(m, op, id, exc, wrote) ==
    [mgr |-> m, op |-> op, id |-> id, exc |-> exc, wrote |-> wrote,
     locked |-> lockfile[ConfigLock] # NoFile]

notProj == <<lockVars, serVars, dimHeader, dimSnap, stepVars, resolveVars, fnVars>>
\* Every call is counted, up to the bound.
Called == calls < MaxCalls /\ calls' = calls + 1
registryFiles == <<projHeader, projSnap, projDims, dsHeader, dsSnap>>
managerFields == <<mProjectIds, mDatasetIds, mProjects>>

\* RegistryManager.load: a new instance on the shared directory; __init__
\* lists configs/projects and configs/datasets once.
Load(m) ==
    /\ mProjectIds' = [mProjectIds EXCEPT ![m] = ListDir(projSnap)]
    /\ mDatasetIds' = [mDatasetIds EXCEPT ![m] = ListDir(dsSnap)]
    /\ mProjects' = [mProjects EXCEPT ![m] = NoDir]
    /\ regRet' = RegRet(m, "load", "none", "none", FALSE)
    /\ UNCHANGED registryFiles
    /\ Called
    /\ UNCHANGED notProj

register_project(m, config, log_message) ==
    LET pid == config.project_id
        version == VersionInfo(1)
        registration == ConfigRegistrationModel(version, Submitter(m), log_message)
        model == [config EXCEPT !.datasets = [x \in DOMAIN @ |-> UNREGISTERED]]
        registry_model ==
            [project_id |-> pid, version |-> version,
             status |-> INITIAL_REGISTRATION,
             description |-> config.description,
             dataset_registries |-> [x \in DOMAIN config.datasets |-> UNREGISTERED],
             registration_history |-> <<registration>>]
    IN  /\ IF pid \in mProjectIds[m]
           THEN /\ regRet' = RegRet(m, "register_project", pid, "ValueError", FALSE)
                /\ UNCHANGED <<projHeader, projSnap>>
           ELSE /\ projHeader' = [projHeader EXCEPT ![pid] = TheFile(registry_model)]
                /\ projSnap' = [projSnap EXCEPT ![pid] = PutFile(@, version, model)]
                /\ regRet' = RegRet(m, "register_project", pid, "none", TRUE)
        /\ UNCHANGED <<projDims, dsHeader, dsSnap>>
        /\ UNCHANGED managerFields
        /\ Called
    /\ UNCHANGED notProj

\* _update_config: the new header keeps everything but description, version
\* and history; the snapshot is the caller's file, copied as it is.
UpdateConfig(registry_config, config, submitter, update_type, log_message) ==
    LET version == Bump(registry_config.version, update_type)
    IN  [registry_config EXCEPT
            !.description = config.description,
            !.version = version,
            !.registration_history =
                Append(@, ConfigRegistrationModel(version, submitter, log_message))]

\* fs_intf.copy_tree(src, dst): the whole directory src is copied to the new
\* directory dst.  It fails when src is missing and when dst is there.
copy_tree(src_exists, dims, version) ==
    IF ~src_exists THEN [dims |-> dims, exc |-> "FileNotFoundError"]
    ELSE IF version \in dims THEN [dims |-> dims, exc |-> "FileExistsError"]
    ELSE [dims |-> dims \cup {version}, exc |-> "none"]

\* dimensions: the directory of the caller's config file holds a directory
\* "dimensions".  The header and the config file are written before it is
\* copied.
update_project(m, config, dimensions, update_type, log_message) ==
    LET pid == config.project_id
    IN  /\ IF pid \notin mProjectIds[m]
           THEN /\ regRet' = RegRet(m, "update_project", pid, "ValueError", FALSE)
                /\ UNCHANGED <<projHeader, projSnap, projDims>>
           ELSE IF projHeader[pid] = NoFile
           THEN /\ regRet' = RegRet(m, "update_project", pid, "FileNotFoundError", FALSE)
                /\ UNCHANGED <<projHeader, projSnap, projDims>>
           ELSE LET new == UpdateConfig(Contents(projHeader[pid]), config,
                                        Submitter(m), update_type, log_message)
                    copied == copy_tree(dimensions, projDims[pid], new.version)
                IN  /\ projHeader' = [projHeader EXCEPT ![pid] = TheFile(new)]
                    /\ projSnap' = [projSnap EXCEPT ![pid] = PutFile(@, new.version, config)]
                    /\ projDims' = [projDims EXCEPT ![pid] = copied.dims]
                    /\ regRet' = RegRet(m, "update_project", pid, copied.exc, TRUE)
        /\ UNCHANGED <<dsHeader, dsSnap>>
        /\ UNCHANGED managerFields
        /\ Called
    /\ UNCHANGED notProj

\* load_project_config: the cached ProjectConfig for (id, version) if there is
\* one, else the snapshot file, which is then cached.
CachedOrLoaded(m, pid, version) ==
    IF <<pid, version>> \in DOMAIN mProjects[m]
    THEN mProjects[m][<<pid, version>>]
    ELSE projSnap[pid][version]

submit_dataset(m, config, pid, mappings_ok, log_message) ==
    LET did == config.dataset_id
        Raise(exc) ==
            /\ regRet' = RegRet(m, "submit_dataset", did, exc, FALSE)
            /\ UNCHANGED registryFiles
            /\ UNCHANGED <<mProjectIds, mDatasetIds>>
        version == VersionInfo(1)
    IN  /\ IF pid \notin mProjectIds[m]
           THEN Raise("ValueError") /\ UNCHANGED mProjects
           ELSE IF projHeader[pid] = NoFile
           THEN Raise("FileNotFoundError") /\ UNCHANGED mProjects
           ELSE LET project_registry == Contents(projHeader[pid])
                    key == <<pid, project_registry.version>>
                IN  IF RegistryHasDataset(project_registry, did, REGISTERED)
                    THEN Raise("ValueError") /\ UNCHANGED mProjects
                    ELSE IF /\ key \notin DOMAIN mProjects[m]
                            /\ project_registry.version \notin DOMAIN projSnap[pid]
                    THEN Raise("FileNotFoundError") /\ UNCHANGED mProjects
                    ELSE LET project_file == CachedOrLoaded(m, pid, project_registry.version)
                             project_config == Contents(project_file)
                             loaded == [mProjects EXCEPT ![m] = PutFile(@, key, project_config)]
                         IN  IF ~ConfigHasDataset(project_config, did)
                             THEN Raise("ValueError") /\ mProjects' = loaded
                             ELSE IF did \in mDatasetIds[m]
                             THEN Raise("AssertionError") /\ mProjects' = loaded
                             ELSE IF ~mappings_ok
                             THEN Raise("DSGInvalidDimensionMapping") /\ mProjects' = loaded
                             ELSE LET registration ==
                                          ConfigRegistrationModel(version, Submitter(m), log_message)
                                      registry_config ==
                                          [dataset_id |-> did, version |-> version,
                                           description |-> config.description,
                                           registration_history |-> <<registration>>]
                                      new_config ==
                                          SetConfigDatasetStatus(project_config, did, REGISTERED)
                                  IN  /\ dsHeader' = [dsHeader EXCEPT ![did] = TheFile(registry_config)]
                                      /\ dsSnap' = [dsSnap EXCEPT ![did] = PutFile(@, version, config)]
                                      /\ projHeader' = [projHeader EXCEPT ![pid] =
                                             TheFile(SetDatasetStatus(project_registry, did, REGISTERED))]
                                      /\ projSnap' = [projSnap EXCEPT ![pid] =
                                             PutFile(@, project_registry.version, new_config)]
                                      /\ UNCHANGED projDims
                                      /\ mProjects' = [mProjects EXCEPT ![m] = PutFile(@, key, new_config)]
                                      /\ mDatasetIds' = [mDatasetIds EXCEPT ![m] = @ \cup {did}]
                                      /\ UNCHANGED mProjectIds
                                      /\ regRet' = RegRet(m, "submit_dataset", did, "none", TRUE)
        /\ Called
    /\ UNCHANGED notProj

\* list_projects() and list_datasets(): the instance's id sets, sorted.
list_projects(m) == mProjectIds[m]
list_datasets(m) == mDatasetIds[m]

\* fs_intf.rmtree of a directory that is no longer there raises.
remove_project(m, pid) ==
    /\ IF pid \notin mProjectIds[m]
       THEN /\ regRet' = RegRet(m, "remove_project", pid, "ValueError", FALSE)
            /\ UNCHANGED <<projHeader, projSnap, projDims>>
       ELSE IF pid \notin ListDir(projSnap)
       THEN /\ regRet' = RegRet(m, "remove_project", pid, "FileNotFoundError", FALSE)
            /\ UNCHANGED <<projHeader, projSnap, projDims>>
       ELSE /\ projHeader' = [projHeader EXCEPT ![pid] = NoFile]
            /\ projSnap' = [projSnap EXCEPT ![pid] = NoDir]
            /\ projDims' = [projDims EXCEPT ![pid] = {}]
            /\ regRet' = RegRet(m, "remove_project", pid, "none", TRUE)
    /\ UNCHANGED <<dsHeader, dsSnap>>
    /\ UNCHANGED managerFields
    /\ Called
    /\ UNCHANGED notProj

\* _project_registries is created empty and never filled, so the loop of
\* remove_dataset over its values visits no project header.
ProjectRegistriesCache(m) == {}

remove_dataset(m, did) ==
    /\ IF did \notin mDatasetIds[m]
       THEN /\ regRet' = RegRet(m, "remove_dataset", did, "ValueError", FALSE)
            /\ UNCHANGED <<projHeader, dsHeader, dsSnap>>
       ELSE IF did \notin ListDir(dsSnap)
       THEN /\ regRet' = RegRet(m, "remove_dataset", did, "FileNotFoundError", FALSE)
            /\ UNCHANGED <<projHeader, dsHeader, dsSnap>>
       ELSE /\ dsHeader' = [dsHeader EXCEPT ![did] = NoFile]
            /\ dsSnap' = [dsSnap EXCEPT ![did] = NoDir]
            /\ projHeader' =
                   [p \in ProjectIds |->
                       IF /\ p \in ProjectRegistriesCache(m)
                          /\ RegistryHasDataset(Contents(projHeader[p]), did, REGISTERED)
                       THEN TheFile(SetDatasetStatus(Contents(projHeader[p]), did, UNREGISTERED))
                       ELSE projHeader[p]]
            /\ regRet' = RegRet(m, "remove_dataset", did, "none", TRUE)
    /\ UNCHANGED <<projSnap, projDims>>
    /\ UNCHANGED managerFields
    /\ Called
    /\ UNCHANGED notProj

\* update_dataset starts with "assert False".
update_dataset(m, did) ==
    /\ regRet' = RegRet(m, "update_dataset", did, "AssertionError", FALSE)
    /\ UNCHANGED registryFiles
    /\ UNCHANGED managerFields
    /\ Called
    /\ UNCHANGED notProj

(***************************************************************************)
(* Dimension registration, RegistryManager.register_dimension.  Names and  *)
(* ids are sequences of characters; version directories are named by the   *)
(* string of their version.                                                *)
(***************************************************************************)
DimTypes == {"geography", "sector"}
\* Two names that differ in case only, and one with a double underscore.
DimNames == {<<"A">>, <<"a">>, <<"a", "_", "_", "b">>}
DimLogMessages == {"log1", "log2"}

\* str.lower() on the characters used in the names.
Lower(ch) == IF ch = "A" THEN "a" ELSE IF ch = "B" THEN "b" ELSE ch
\* assign_dimension_id: name.lower().replace(" ", "_").
assign_dimension_id(name) ==
    [i \in DOMAIN name |-> IF Lower(name[i]) = " " THEN "_" ELSE Lower(name[i])]
\* f.split("__")[0]: the part of a directory name before its first "__".
SplitFirst(f) ==
    LET at == {i \in 1..(Len(f) - 1) : f[i] = "_" /\ f[i + 1] = "_"}
    IN  IF at = {} THEN f
        ELSE SubSeq(f, 1, (CHOOSE i \in at : \A j \in at : i <= j) - 1)

DimIds == {assign_dimension_id(n) : n \in DimNames}
DimDirs == DimTypes \X DimIds

\* str(version) as character codes: digits 48..57 and "." 46.
RECURSIVE Digits(_)
Digits(n) == IF n < 10 THEN <<48 + n>> ELSE Digits(n \div 10) \o <<48 + (n % 10)>>
VersionStr(v) == Digits(v[1]) \o <<46>> \o Digits(v[2]) \o <<46>> \o Digits(v[3])
\* Python's order on strings: by the first differing character, a proper
\* prefix first.
StrLess(a, b) ==
    \/ \E i \in 1..Len(a) :
          /\ i <= Len(b)
          /\ a[i] < b[i]
          /\ \A j \in 1..(i - 1) : a[j] = b[j]
    \/ Len(a) < Len(b) /\ \A j \in 1..Len(a) : a[j] = b[j]
\* VersionInfo.parse(max(versions)) over the names of the version directories.
MaxVersionDir(versions) ==
    CHOOSE v \in versions : \A w \in versions : ~StrLess(VersionStr(v), VersionStr(w))
\* One [[dimensions]] entry of a dimension config file; the stored
\* dimension.toml keeps these fields with the id and version assigned.
DimensionItems ==
    [type : DimTypes, name : DimNames, upgrade : BOOLEAN, log_message : DimLogMessages]
\* The files a user may pass: one entry, or two entries of different names
\* (the loop finds the entry of a record by its name).
DimensionBatches ==
    {<<i>> : i \in DimensionItems}
        \cup {<<p[1], p[2]>> : p \in {q \in DimensionItems \X DimensionItems :
                                          q[1].name # q[2].name}}
\* The files passed where projects and datasets are registered as well: the
\* geography dimension A alone, or followed by the entry named a with the
\* upgrade flag inverted.
RegistryBatches ==
    LET entries == {i \in DimensionItems : i.type = "geography" /\ i.name = <<"A">>}
    IN  {<<i>> : i \in entries}
            \cup {<<i, [i EXCEPT !.name = <<"a">>, !.upgrade = ~@]>> : i \in entries}
\* The orders in which os.listdir may return the directories of a type.
ListdirOrders ==
    {o \in [1..Cardinality(DimIds) -> DimIds] : \A d \in DimIds : \E k \in DOMAIN o : o[k] = d}

\* One of them, where a single directory is listed and the order is immaterial.
SomeOrder == CHOOSE o \in ListdirOrders : TRUE

\* The local variable "version" before any entry has assigned it.
Unbound == <<>>

\* The loop body of _register_dimension_config for entry i of the file, and
\* then the rest of the loop.  st holds the header and version directories
\* of every dimension directory, "version" as the previous entry left it,
\* and whether an entry has been written.
RECURSIVE RegisterItems(_, _, _, _, _)
RegisterItems(items, i, st, submitter, order) ==
    IF i > Len(items) THEN [st EXCEPT !.exc = "none"]
    ELSE
    LET item == items[i]
        id == assign_dimension_id(item.name)
        dir == <<item.type, id>>
        config_dim == items[CHOOSE j \in DOMAIN items :
                               /\ items[j].name = item.name
                               /\ \A k \in 1..(j - 1) : items[k].name # item.name]
        log_message == config_dim.log_message
        listed == {d \in DimIds : DOMAIN st.snap[<<item.type, d>>] # {}}
        matching == {d \in listed : SplitFirst(d) = id}
        first == order[CHOOSE k \in DOMAIN order :
                          /\ order[k] \in matching
                          /\ \A j \in 1..(k - 1) : order[j] \notin matching]
        versions == DOMAIN st.snap[<<item.type, first>>]
        log_msgs == {Contents(st.snap[<<item.type, first>>][v]).log_message : v \in versions}
        version ==
            IF config_dim.upgrade
            THEN IF matching # {} THEN bump_major(MaxVersionDir(versions)) ELSE st.version
            ELSE VersionInfo(1)
        exc ==
            IF config_dim.upgrade
            THEN IF listed = {} THEN "ValueError"
                 ELSE IF matching # {} /\ log_message \in log_msgs THEN "ValueError"
                 ELSE IF version = Unbound THEN "UnboundLocalError"
                 ELSE "none"
            ELSE IF matching # {} THEN "ValueError" ELSE "none"
        registration == ConfigRegistrationModel(version, submitter, log_message)
        registry_config == [version |-> version, registration_history |-> <<registration>>]
        dimension == [type |-> item.type, name |-> item.name, id |-> id,
                      log_message |-> log_message, version |-> version]
    IN  IF exc # "none" THEN [st EXCEPT !.exc = exc]
        ELSE RegisterItems(items, i + 1,
                 [header |-> [st.header EXCEPT ![dir] = TheFile(registry_config)],
                  snap |-> [st.snap EXCEPT ![dir] = PutFile(@, version, dimension)],
                  version |-> version, exc |-> "none", wrote |-> TRUE],
                 submitter, order)

register_dimension(m, items, order) ==
    LET r == RegisterItems(items, 1,
                 [header |-> dimHeader, snap |-> dimSnap, version |-> Unbound,
                  exc |-> "none", wrote |-> FALSE], Submitter(m), order)
    IN  /\ dimHeader' = r.header
        /\ dimSnap' = r.snap
        /\ regRet' = RegRet(m, "register_dimension", "dimensions", r.exc, r.wrote)
        /\ UNCHANGED registryFiles
        /\ UNCHANGED managerFields
        /\ Called
        /\ UNCHANGED <<lockVars, serVars, stepVars, resolveVars, fnVars>>

NextReg ==
    \/ \E m \in Managers : Load(m)
    \/ \E m \in Managers, config \in ProjectConfigFiles, msg \in LogMessages :
           register_project(m, config, msg)
    \/ \E m \in Managers, config \in ProjectConfigFiles, dimensions \in BOOLEAN,
          t \in UpdateTypes, msg \in LogMessages :
              update_project(m, config, dimensions, t, msg)
    \/ \E m \in Managers, config \in DatasetConfigFiles, pid \in ProjectIds,
          ok \in BOOLEAN, msg \in LogMessages : submit_dataset(m, config, pid, ok, msg)
    \/ \E m \in Managers, pid \in ProjectIds : remove_project(m, pid)
    \/ \E m \in Managers, did \in DatasetIds : remove_dataset(m, did)
    \/ \E m \in Managers, did \in DatasetIds : update_dataset(m, did)
    \/ \E m \in Managers, items \in RegistryBatches :
           register_dimension(m, items, SomeOrder)

\* Dimension registration alone, with every file and every listing order.
\* register_dimension reads no field of the manager, so one manager calls.
NextDim ==
    \E items \in DimensionBatches, order \in ListdirOrders :
        /\ calls < MaxDimCalls
        /\ register_dimension("M1", items, order)

(***************************************************************************)
(* Initial states and specifications.                                      *)
(***************************************************************************)
NoSerRet == [op |-> "none", force |-> FALSE, exc |-> "none",
             cfg |-> [doc |-> "doc1", single |-> <<>>, multi |-> <<>>],
             before |-> [n \in DirNames |-> NoFile]]

\* An empty destination directory and no serialize call yet.
NoCall == [op |-> "none", mgr |-> "none"]
\* No call is in progress.
InitStepVars ==
    /\ wcall = [m \in Managers |-> NoCall]
    /\ wlog = [m \in Managers |-> <<>>]

NoResRet == [exc |-> "not called"]
\* No dimension is registered and nothing has been resolved.
InitResolveVars ==
    /\ dimRegistry = {}
    /\ resRet = NoResRet

NoFnRet == [fn |-> "none"]
\* No function has been called.
InitFnVars ==
    /\ fnArgs = "none"
    /\ fnRet = NoFnRet

InitSerVars ==
    /\ dirFiles = [n \in DirNames |-> NoFile]
    /\ serRet = NoSerRet
    /\ cmpCache = {}
    /\ serCalls = 0

InitLockVars ==
    /\ lockfile = [p \in LockPaths |-> NoFile]
    /\ clock = 0
    /\ pc = [c \in Callers |-> "idle"]
    /\ cpath = [c \in Callers |-> ConfigLock]
    /\ pending = [c \in Callers |-> "none"]
    /\ entered = [c \in Callers |-> FALSE]
    /\ overlap = [c \in Callers |-> {}]
    /\ alone = [c \in Callers |-> FALSE]
    /\ cforce = [c \in Callers |-> FALSE]
    /\ csaw = [c \in Callers |-> NoFile]
    /\ ret = NoRet

\* A registry just created (RegistryManager.create) and a manager instance
\* loaded from it for each user.
InitProjVars ==
    /\ projHeader = [p \in ProjectIds |-> NoFile]
    /\ projSnap = [p \in ProjectIds |-> NoDir]
    /\ projDims = [p \in ProjectIds |-> {}]
    /\ dsHeader = [d \in DatasetIds |-> NoFile]
    /\ dsSnap = [d \in DatasetIds |-> NoDir]
    /\ mProjectIds = [m \in Managers |-> {}]
    /\ mDatasetIds = [m \in Managers |-> {}]
    /\ mProjects = [m \in Managers |-> NoDir]
    /\ dimHeader = [d \in DimDirs |-> NoFile]
    /\ dimSnap = [d \in DimDirs |-> NoDir]
    /\ regRet = NoRegRet
    /\ calls = 0

InitLock ==
    /\ ident \in [Callers -> Identities]
    /\ InitLockVars
    /\ InitSerVars
    /\ InitProjVars
    /\ InitStepVars
    /\ InitResolveVars
    /\ InitFnVars

\* No lock activity: the state of the lock variables in the other specifications.
IdleLock ==
    /\ ident = [c \in Callers |-> [uuid |-> "u1", username |-> "alice"]]
    /\ InitLockVars

\* An empty destination directory; any config may be serialized into it.
InitSer ==
    /\ InitSerVars
    /\ IdleLock
    /\ InitProjVars
    /\ InitStepVars
    /\ InitResolveVars
    /\ InitFnVars

InitReg ==
    /\ InitProjVars
    /\ IdleLock
    /\ InitSerVars
    /\ InitStepVars
    /\ InitResolveVars
    /\ InitFnVars

SpecLock == InitLock /\ [][NextLock]_vars

SpecSer == InitSer /\ [][NextSer]_vars

SpecReg == InitReg /\ [][NextReg]_vars

InitDim ==
    /\ InitProjVars
    /\ IdleLock
    /\ InitSerVars
    /\ InitStepVars
    /\ InitResolveVars
    /\ InitFnVars

SpecDim == InitDim /\ [][NextDim]_vars

\* The log message of the n-th registration of a dimension: a text of its own.
UpgradeLog(n) == <<"log", n>>
UpgradedDir == <<"geography", <<"a">>>>
\* dimensions/geography/a after M1 has registered the dimension named a and
\* upgraded it major - 1 times, each time with a new log message: the version
\* directories 1.0.0 .. major.0.0 and the header of the last registration.
UpgradedDimension(major) ==
    /\ dimHeader = [d \in DimDirs |->
           IF d = UpgradedDir
           THEN TheFile([version |-> VersionInfo(major),
                         registration_history |->
                             <<ConfigRegistrationModel(VersionInfo(major), Submitter("M1"),
                                                       UpgradeLog(major))>>])
           ELSE NoFile]
    /\ dimSnap = [d \in DimDirs |->
           IF d = UpgradedDir
           THEN [v \in {VersionInfo(n) : n \in 1..major} |->
                    TheFile([type |-> "geography", name |-> <<"a">>, id |-> <<"a">>,
                             log_message |-> UpgradeLog(v[1]), version |-> v])]
           ELSE NoDir]
    /\ regRet = [mgr |-> "M1", op |-> "register_dimension", id |-> "dimensions",
                 exc |-> "none", wrote |-> TRUE, locked |-> FALSE]

InitUpgrade ==
    /\ \E major \in 1..MaxMajor : UpgradedDimension(major)
    /\ projHeader = [p \in ProjectIds |-> NoFile]
    /\ projSnap = [p \in ProjectIds |-> NoDir]
    /\ projDims = [p \in ProjectIds |-> {}]
    /\ dsHeader = [d \in DatasetIds |-> NoFile]
    /\ dsSnap = [d \in DatasetIds |-> NoDir]
    /\ mProjectIds = [m \in Managers |-> {}]
    /\ mDatasetIds = [m \in Managers |-> {}]
    /\ mProjects = [m \in Managers |-> NoDir]
    /\ calls = 0
    /\ IdleLock
    /\ InitSerVars
    /\ InitStepVars
    /\ InitResolveVars
    /\ InitFnVars

\* A file with the one entry named a: an upgrade or not, with a log message
\* used before or a new one.
NextUpgrade ==
    \E upgrade \in BOOLEAN, n \in 1..(MaxMajor + MaxUpgradeCalls) :
        /\ calls < MaxUpgradeCalls
        /\ register_dimension("M1",
               <<[type |-> "geography", name |-> <<"a">>, upgrade |-> upgrade,
                  log_message |-> UpgradeLog(n)]>>, SomeOrder)

SpecUpgrade == InitUpgrade /\ [][NextUpgrade]_vars

\* The registry after M1 has registered every project from the file that
\* declares both datasets and has then been loaded again; M2 is an instance
\* loaded while the registry was empty.
RegisteredProjects ==
    /\ projHeader = [p \in ProjectIds |-> TheFile(
           [project_id |-> p, version |-> VersionInfo(1),
            status |-> INITIAL_REGISTRATION, description |-> "desc1",
            dataset_registries |-> [x \in DatasetIds |-> UNREGISTERED],
            registration_history |->
                <<ConfigRegistrationModel(VersionInfo(1), Submitter("M1"), "log1")>>])]
    /\ projSnap = [p \in ProjectIds |-> PutFile(NoDir, VersionInfo(1),
           ProjectFile(p, "desc1", DatasetIds, UNREGISTERED, "dims1"))]
    /\ projDims = [p \in ProjectIds |-> {}]
    /\ dsHeader = [d \in DatasetIds |-> NoFile]
    /\ dsSnap = [d \in DatasetIds |-> NoDir]
    /\ mProjectIds = [m \in Managers |-> IF m = "M1" THEN ProjectIds ELSE {}]
    /\ mDatasetIds = [m \in Managers |-> {}]
    /\ mProjects = [m \in Managers |-> NoDir]
    /\ dimHeader = [d \in DimDirs |-> NoFile]
    /\ dimSnap = [d \in DimDirs |-> NoDir]
    /\ regRet = [mgr |-> "M1", op |-> "load", id |-> "none", exc |-> "none",
                 wrote |-> FALSE, locked |-> FALSE]

InitSubmit ==
    /\ RegisteredProjects
    /\ calls = 0
    /\ IdleLock
    /\ InitSerVars
    /\ InitStepVars
    /\ InitResolveVars
    /\ InitFnVars

\* Registration, submission and removal, the calls that decide what a
\* submit_dataset finds.
NextSubmit ==
    \/ \E m \in Managers : Load(m)
    \/ \E m \in Managers, config \in ProjectConfigFiles, msg \in LogMessages :
           register_project(m, config, msg)
    \/ \E m \in Managers, config \in DatasetConfigFiles, pid \in ProjectIds,
          ok \in BOOLEAN, msg \in LogMessages : submit_dataset(m, config, pid, ok, msg)
    \/ \E m \in Managers, pid \in ProjectIds : remove_project(m, pid)
    \/ \E m \in Managers, did \in DatasetIds : remove_dataset(m, did)

SpecSubmit == InitSubmit /\ [][NextSubmit]_vars

\* The registry of RegisteredProjects as RegistryManager.load finds it when
\* the status field of each registry.toml holds any member of
\* ProjectRegistryStatus: the header is a file the manager reads, and no
\* operation of the manager writes a status other than INITIAL_REGISTRATION.
InitStatus ==
    /\ \E status \in ProjectRegistryStatus :
           projHeader = [p \in ProjectIds |-> TheFile(
               [project_id |-> p, version |-> VersionInfo(1),
                status |-> status, description |-> "desc1",
                dataset_registries |-> [x \in DatasetIds |-> UNREGISTERED],
                registration_history |->
                    <<ConfigRegistrationModel(VersionInfo(1), Submitter("M1"), "log1")>>])]
    /\ projSnap = [p \in ProjectIds |-> PutFile(NoDir, VersionInfo(1),
           ProjectFile(p, "desc1", DatasetIds, UNREGISTERED, "dims1"))]
    /\ projDims = [p \in ProjectIds |-> {}]
    /\ dsHeader = [d \in DatasetIds |-> NoFile]
    /\ dsSnap = [d \in DatasetIds |-> NoDir]
    /\ mProjectIds = [m \in Managers |-> IF m = "M1" THEN ProjectIds ELSE {}]
    /\ mDatasetIds = [m \in Managers |-> {}]
    /\ mProjects = [m \in Managers |-> NoDir]
    /\ dimHeader = [d \in DimDirs |-> NoFile]
    /\ dimSnap = [d \in DimDirs |-> NoDir]
    /\ regRet = [mgr |-> "M1", op |-> "load", id |-> "none", exc |-> "none",
                 wrote |-> FALSE, locked |-> FALSE]
    /\ calls = 0
    /\ IdleLock
    /\ InitSerVars
    /\ InitStepVars
    /\ InitResolveVars
    /\ InitFnVars

\* The calls that read or keep the status of a project header.
NextStatus ==
    \/ \E m \in Managers : calls < MaxStatusCalls /\ Load(m)
    \/ \E m \in Managers, config \in ProjectConfigFiles, dimensions \in BOOLEAN,
          t \in UpdateTypes, msg \in LogMessages :
              calls < MaxStatusCalls /\ update_project(m, config, dimensions, t, msg)
    \/ \E m \in Managers, config \in DatasetConfigFiles, pid \in ProjectIds,
          ok \in BOOLEAN, msg \in LogMessages :
              calls < MaxStatusCalls /\ submit_dataset(m, config, pid, ok, msg)

SpecStatus == InitStatus /\ [][NextStatus]_vars

(***************************************************************************)
(* Part 4: register_project, update_project and submit_dataset taken one  *)
(* statement at a time, so that the states between two file writes exist  *)
(* and an instance of another process can read the directory in them.     *)
(* A call in progress is its manager, its result so far and the list of   *)
(* the statements it has still to run, in the order of the source, with   *)
(* the values the call computed from what it read before its first write. *)
(* registry_manager.py takes no lock: each instance runs one call at a    *)
(* time, and the calls of two instances interleave statement by statement.*)
(***************************************************************************)
\* An entry of wlog: what was done, in which directory, for which version.
Event(kind, id, version) == [kind |-> kind, id |-> id, version |-> version]
\* The entry of a listdir: the directory listed and the ids it returned.
Listing(tree, ids) == [kind |-> "listdir", id |-> tree, version |-> "none", ids |-> ids]
\* fs_intf.mkdir(data_dir): the version directory exists, with no config
\* document in it yet; a directory that is already there is left as it is.
MkDir(d, n) == [k \in DOMAIN d \cup {n} |-> IF k \in DOMAIN d THEN d[k] ELSE NoFile]
\* The statements of a call.
MkdirStmt(tree, id, version) ==
    [kind |-> "mkdir", tree |-> tree, id |-> id, version |-> version]
DumpStmt(tree, file, id, version, contents) ==
    [kind |-> "dump", tree |-> tree, file |-> file, id |-> id,
     version |-> version, contents |-> contents]
CopyTreeStmt(src_exists, id, version) ==
    [kind |-> "copy_tree", src_exists |-> src_exists, id |-> id, version |-> version]
CacheStmt(key, contents) == [kind |-> "cache", key |-> key, contents |-> contents]
AddIdStmt(id) == [kind |-> "add_id", id |-> id]
PushStmt == [kind |-> "sync_push"]
\* submit_dataset: load_project_config(project_id, registry=project_registry)
\* and the checks after it, with the local variables they use.
LoadConfigStmt(config, pid, project_registry, mappings_ok, log_message) ==
    [kind |-> "load_config", config |-> config, pid |-> pid,
     project_registry |-> project_registry, mappings_ok |-> mappings_ok,
     log_message |-> log_message]
\* load_project_config: the config document of the version is read.
ReadConfigStmt(key) == [kind |-> "read_config", key |-> key]
\* The call has passed its validation: nothing is written yet.
Validated(m, op, id, todo) ==
    /\ wcall' = [wcall EXCEPT ![m] = [op |-> op, mgr |-> m, id |-> id, todo |-> todo]]
    /\ wlog' = [wlog EXCEPT ![m] = <<Event("validate", id, "none")>>]
    /\ UNCHANGED regRet
\* The call raises in its validation.
Raised(m, op, id, exc) ==
    /\ wcall' = [wcall EXCEPT ![m] = NoCall]
    /\ wlog' = [wlog EXCEPT ![m] = <<Event("validate", id, "none")>>]
    /\ regRet' = RegRet(m, op, id, exc, FALSE)
notSteps == <<lockVars, serVars, dimHeader, dimSnap, resolveVars, fnVars>>

\* RegistryManager.load of manager m is under way: it has synced and has not
\* yet listed both directories.  The instance it builds replaces m's when the
\* call returns; until then m makes no other call.
Loading(m) ==
    /\ wlog[m] # <<>>
    /\ wlog[m][1].kind = "sync"
    /\ Len(wlog[m]) < 3

\* RegistryManager.load, line 122: sync from the remote store.
StepLoad(m) ==
    /\ wcall[m] = NoCall
    /\ ~Loading(m)
    /\ wlog' = [wlog EXCEPT ![m] = <<Event("sync", "none", "none")>>]
    /\ UNCHANGED <<wcall, regRet>>
    /\ UNCHANGED managerFields
    /\ UNCHANGED registryFiles
    /\ Called
    /\ UNCHANGED notSteps

\* __init__, line 73: listdir of configs/projects; the ids are held in the
\* local variable project_ids.
StepListProjects(m) ==
    /\ Loading(m)
    /\ Len(wlog[m]) = 1
    /\ wlog' = [wlog EXCEPT ![m] = Append(@, Listing("projects", ListDir(projSnap)))]
    /\ UNCHANGED <<wcall, regRet, calls>>
    /\ UNCHANGED managerFields
    /\ UNCHANGED registryFiles
    /\ UNCHANGED notSteps

\* __init__, lines 74-76: listdir of configs/datasets, then the new instance
\* with both id sets and an empty cache is returned.
StepListDatasets(m) ==
    /\ Loading(m)
    /\ Len(wlog[m]) = 2
    /\ mProjectIds' = [mProjectIds EXCEPT ![m] = wlog[m][2].ids]
    /\ mDatasetIds' = [mDatasetIds EXCEPT ![m] = ListDir(dsSnap)]
    /\ mProjects' = [mProjects EXCEPT ![m] = NoDir]
    /\ regRet' = RegRet(m, "load", "none", "none", FALSE)
    /\ wlog' = [wlog EXCEPT ![m] = Append(@, Listing("datasets", ListDir(dsSnap)))]
    /\ UNCHANGED <<wcall, calls>>
    /\ UNCHANGED registryFiles
    /\ UNCHANGED notSteps

\* register_project up to its first write (lines 519-552).
BeginRegisterProject(m, config, log_message) ==
    LET pid == config.project_id
        version == VersionInfo(1)
        registration == ConfigRegistrationModel(version, Submitter(m), log_message)
        model == [config EXCEPT !.datasets = [x \in DOMAIN @ |-> UNREGISTERED]]
        registry_model ==
            [project_id |-> pid, version |-> version,
             status |-> INITIAL_REGISTRATION,
             description |-> config.description,
             dataset_registries |-> [x \in DOMAIN config.datasets |-> UNREGISTERED],
             registration_history |-> <<registration>>]
    IN  /\ wcall[m] = NoCall
        /\ ~Loading(m)
        /\ IF pid \in mProjectIds[m]
           THEN Raised(m, "register_project", pid, "ValueError")
           ELSE Validated(m, "register_project", pid,
                    <<MkdirStmt("projects", pid, version),
                      DumpStmt("projects", "header", pid, version, registry_model),
                      DumpStmt("projects", "snapshot", pid, version, model),
                      PushStmt>>)
        /\ UNCHANGED registryFiles
        /\ UNCHANGED managerFields
        /\ Called
        /\ UNCHANGED notSteps

\* update_project and _update_config up to the first write (586-817).
BeginUpdateProject(m, config, dimensions, update_type, log_message) ==
    LET pid == config.project_id
    IN  /\ wcall[m] = NoCall
        /\ ~Loading(m)
        /\ IF pid \notin mProjectIds[m]
           THEN Raised(m, "update_project", pid, "ValueError")
           ELSE IF projHeader[pid] = NoFile
           THEN Raised(m, "update_project", pid, "FileNotFoundError")
           ELSE LET new == UpdateConfig(Contents(projHeader[pid]), config,
                                        Submitter(m), update_type, log_message)
                IN  Validated(m, "update_project", pid,
                        <<MkdirStmt("projects", pid, new.version),
                          DumpStmt("projects", "header", pid, new.version, new),
                          DumpStmt("projects", "snapshot", pid, new.version, config),
                          CopyTreeStmt(dimensions, pid, new.version)>>)
        /\ UNCHANGED registryFiles
        /\ UNCHANGED managerFields
        /\ Called
        /\ UNCHANGED notSteps

\* submit_dataset up to load_project_registry (621-628): the header is read
\* and kept in the local variable project_registry.
BeginSubmitDataset(m, config, pid, mappings_ok, log_message) ==
    LET did == config.dataset_id
        Raise(exc) == Raised(m, "submit_dataset", did, exc)
    IN  /\ wcall[m] = NoCall
        /\ ~Loading(m)
        /\ IF pid \notin mProjectIds[m]
           THEN Raise("ValueError")
           ELSE IF projHeader[pid] = NoFile
           THEN Raise("FileNotFoundError")
           ELSE LET project_registry == Contents(projHeader[pid])
                IN  IF RegistryHasDataset(project_registry, did, REGISTERED)
                    THEN Raise("ValueError")
                    ELSE Validated(m, "submit_dataset", did,
                             <<LoadConfigStmt(config, pid, project_registry, mappings_ok,
                                              log_message)>>)
        /\ UNCHANGED registryFiles
        /\ UNCHANGED managerFields
        /\ Called
        /\ UNCHANGED notSteps

\* The statement that the call in progress runs next.
NextStmt(m, kind) ==
    /\ wcall[m] # NoCall
    /\ wcall[m].todo # <<>>
    /\ Head(wcall[m].todo).kind = kind
Done(m, event) ==
    /\ wcall' = [wcall EXCEPT ![m].todo = Tail(@)]
    /\ wlog' = [wlog EXCEPT ![m] = Append(@, event)]
    /\ UNCHANGED <<regRet, calls>>
    /\ UNCHANGED notSteps

\* submit_dataset, lines 630-656: load_project_config reads the config
\* document of the version that project_registry names, unless it is cached,
\* and caches it; then the remaining checks, up to the first write.
StepLoadConfig(m) ==
    /\ NextStmt(m, "load_config")
    /\ LET s == Head(wcall[m].todo)
           config == s.config
           pid == s.pid
           project_registry == s.project_registry
           did == config.dataset_id
           version == VersionInfo(1)
           key == <<pid, project_registry.version>>
           Raise(exc) ==
               /\ wcall' = [wcall EXCEPT ![m] = NoCall]
               /\ regRet' = RegRet(m, "submit_dataset", did, exc, FALSE)
       IN  IF /\ key \notin DOMAIN mProjects[m]
              /\ \/ project_registry.version \notin DOMAIN projSnap[pid]
                 \/ projSnap[pid][project_registry.version] = NoFile
           THEN Raise("FileNotFoundError") /\ UNCHANGED mProjects
           ELSE LET project_file == CachedOrLoaded(m, pid, project_registry.version)
                    project_config == Contents(project_file)
                    loaded == [mProjects EXCEPT ![m] = PutFile(@, key, project_config)]
                    registration ==
                        ConfigRegistrationModel(version, Submitter(m), s.log_message)
                    registry_config ==
                        [dataset_id |-> did, version |-> version,
                         description |-> config.description,
                         registration_history |-> <<registration>>]
                    new_config ==
                        SetConfigDatasetStatus(project_config, did, REGISTERED)
                IN  /\ mProjects' = loaded
                    /\ IF ~ConfigHasDataset(project_config, did)
                       THEN Raise("ValueError")
                       ELSE IF did \in mDatasetIds[m]
                       THEN Raise("AssertionError")
                       ELSE IF ~s.mappings_ok
                       THEN Raise("DSGInvalidDimensionMapping")
                       ELSE /\ wcall' = [wcall EXCEPT ![m].todo =
                                  <<MkdirStmt("datasets", did, version),
                                    DumpStmt("datasets", "header", did, version,
                                             registry_config),
                                    DumpStmt("datasets", "snapshot", did, version, config),
                                    DumpStmt("projects", "header", pid,
                                             project_registry.version,
                                             SetDatasetStatus(project_registry, did,
                                                              REGISTERED)),
                                    CacheStmt(key, new_config),
                                    DumpStmt("projects", "snapshot", pid,
                                             project_registry.version, new_config),
                                    AddIdStmt(did)>>]
                            /\ UNCHANGED regRet
    /\ UNCHANGED <<wlog, calls>>
    /\ UNCHANGED <<mProjectIds, mDatasetIds>>
    /\ UNCHANGED registryFiles
    /\ UNCHANGED notSteps

\* self._fs_intf.mkdir(data_dir).
StepMkdir(m) ==
    /\ NextStmt(m, "mkdir")
    /\ LET s == Head(wcall[m].todo)
       IN  /\ IF s.tree = "projects"
              THEN /\ projSnap' = [projSnap EXCEPT ![s.id] = MkDir(@, s.version)]
                   /\ UNCHANGED dsSnap
              ELSE /\ dsSnap' = [dsSnap EXCEPT ![s.id] = MkDir(@, s.version)]
                   /\ UNCHANGED projSnap
           /\ Done(m, Event("mkdir", s.id, s.version))
    /\ UNCHANGED <<projHeader, projDims, dsHeader>>
    /\ UNCHANGED managerFields

\* dump_data, serialize or copy_file of one file: registry.toml of a config
\* directory, or the config document of one of its version directories.
StepDump(m) ==
    /\ NextStmt(m, "dump")
    /\ LET s == Head(wcall[m].todo)
       IN  /\ projHeader' = IF s.tree = "projects" /\ s.file = "header"
                            THEN [projHeader EXCEPT ![s.id] = TheFile(s.contents)]
                            ELSE projHeader
           /\ projSnap' = IF s.tree = "projects" /\ s.file = "snapshot"
                          THEN [projSnap EXCEPT ![s.id] = PutFile(@, s.version, s.contents)]
                          ELSE projSnap
           /\ dsHeader' = IF s.tree = "datasets" /\ s.file = "header"
                          THEN [dsHeader EXCEPT ![s.id] = TheFile(s.contents)]
                          ELSE dsHeader
           /\ dsSnap' = IF s.tree = "datasets" /\ s.file = "snapshot"
                        THEN [dsSnap EXCEPT ![s.id] = PutFile(@, s.version, s.contents)]
                        ELSE dsSnap
           /\ Done(m, Event(s.file, s.id, s.version))
    /\ UNCHANGED projDims
    /\ UNCHANGED managerFields

\* self._fs_intf.copy_tree(dimensions_dir, data_dir / "dimensions"), the last
\* statement of _update_config: when it raises, the call ends there.
StepCopyTree(m) ==
    /\ NextStmt(m, "copy_tree")
    /\ LET s == Head(wcall[m].todo)
           copied == copy_tree(s.src_exists, projDims[s.id], s.version)
       IN  /\ projDims' = [projDims EXCEPT ![s.id] = copied.dims]
           /\ wlog' = [wlog EXCEPT ![m] =
                  Append(@, Event("copy_tree", s.id, s.version))]
           /\ IF copied.exc = "none"
              THEN /\ wcall' = [wcall EXCEPT ![m].todo = Tail(@)]
                   /\ UNCHANGED regRet
              ELSE /\ wcall' = [wcall EXCEPT ![m] = NoCall]
                   /\ regRet' = RegRet(m, wcall[m].op, wcall[m].id, copied.exc, TRUE)
    /\ UNCHANGED <<projHeader, projSnap, dsHeader, dsSnap>>
    /\ UNCHANGED managerFields
    /\ UNCHANGED calls
    /\ UNCHANGED notSteps

\* project_config.get_dataset(dataset_id).status = status: the object is the
\* one in the _projects cache.
StepCache(m) ==
    /\ NextStmt(m, "cache")
    /\ LET s == Head(wcall[m].todo)
       IN  /\ mProjects' = [mProjects EXCEPT ![m] = PutFile(@, s.key, s.contents)]
           /\ Done(m, Event("cache", s.key[1], s.key[2]))
    /\ UNCHANGED <<mProjectIds, mDatasetIds>>
    /\ UNCHANGED registryFiles

\* self._dataset_ids.add(dataset_id).
StepAddId(m) ==
    /\ NextStmt(m, "add_id")
    /\ LET s == Head(wcall[m].todo)
       IN  /\ mDatasetIds' = [mDatasetIds EXCEPT ![m] = @ \cup {s.id}]
           /\ Done(m, Event("add_id", s.id, "none"))
    /\ UNCHANGED <<mProjectIds, mProjects>>
    /\ UNCHANGED registryFiles

\* ProjectRegistry.sync_push(self._path).
StepPush(m) ==
    /\ NextStmt(m, "sync_push")
    /\ Done(m, Event("sync_push", "none", "none"))
    /\ UNCHANGED managerFields
    /\ UNCHANGED registryFiles

\* The call has run its last statement and returns.
StepReturn(m) ==
    /\ wcall[m] # NoCall
    /\ wcall[m].todo = <<>>
    /\ regRet' = RegRet(m, wcall[m].op, wcall[m].id, "none", TRUE)
    /\ wcall' = [wcall EXCEPT ![m] = NoCall]
    /\ UNCHANGED <<wlog, calls>>
    /\ UNCHANGED managerFields
    /\ UNCHANGED registryFiles
    /\ UNCHANGED notSteps

\* load_project_config(project_id) of an instance that has no call in
\* progress, up to load_project_registry: registry.toml is read and names
\* the version whose config document is read next.
load_project_config(m, pid) ==
    LET Ret(exc) == /\ regRet' = RegRet(m, "load_project_config", pid, exc, FALSE)
                    /\ UNCHANGED wcall
    IN  /\ wcall[m] = NoCall
        /\ ~Loading(m)
        /\ IF pid \notin mProjectIds[m]
           THEN Ret("ValueError")
           ELSE IF projHeader[pid] = NoFile
           THEN Ret("FileNotFoundError")
           ELSE /\ wcall' = [wcall EXCEPT ![m] =
                      [op |-> "load_project_config", mgr |-> m, id |-> pid,
                       todo |-> <<ReadConfigStmt(
                                     <<pid, Contents(projHeader[pid]).version>>)>>]]
                /\ UNCHANGED regRet
        /\ wlog' = [wlog EXCEPT ![m] = <<Event("read", pid, "none")>>]
        /\ UNCHANGED managerFields
        /\ UNCHANGED registryFiles
        /\ Called
        /\ UNCHANGED notSteps

\* load_project_config, lines 200-211: the cached config of the version, or
\* the config document read from its version directory and cached.
StepReadConfig(m) ==
    /\ NextStmt(m, "read_config")
    /\ LET key == Head(wcall[m].todo).key
           pid == key[1]
           version == key[2]
           Ret(exc) == regRet' = RegRet(m, "load_project_config", pid, exc, FALSE)
       IN  IF key \in DOMAIN mProjects[m]
           THEN Ret("none") /\ UNCHANGED mProjects
           ELSE IF \/ version \notin DOMAIN projSnap[pid]
                   \/ projSnap[pid][version] = NoFile
           THEN Ret("FileNotFoundError") /\ UNCHANGED mProjects
           ELSE /\ Ret("none")
                /\ mProjects' = [mProjects EXCEPT ![m] =
                       PutFile(@, key, Contents(projSnap[pid][version]))]
    /\ wcall' = [wcall EXCEPT ![m] = NoCall]
    /\ UNCHANGED <<wlog, calls>>
    /\ UNCHANGED <<mProjectIds, mDatasetIds>>
    /\ UNCHANGED registryFiles
    /\ UNCHANGED notSteps

\* The registry of RegisteredProjects after both instances have loaded it;
\* the calls that built it count as one call made.
RegisteredAndLoaded ==
    /\ projHeader = [p \in ProjectIds |-> TheFile(
           [project_id |-> p, version |-> VersionInfo(1),
            status |-> INITIAL_REGISTRATION, description |-> "desc1",
            dataset_registries |-> [x \in DatasetIds |-> UNREGISTERED],
            registration_history |->
                <<ConfigRegistrationModel(VersionInfo(1), Submitter("M1"), "log1")>>])]
    /\ projSnap = [p \in ProjectIds |-> PutFile(NoDir, VersionInfo(1),
           ProjectFile(p, "desc1", DatasetIds, UNREGISTERED, "dims1"))]
    /\ projDims = [p \in ProjectIds |-> {}]
    /\ dsHeader = [d \in DatasetIds |-> NoFile]
    /\ dsSnap = [d \in DatasetIds |-> NoDir]
    /\ mProjectIds = [m \in Managers |-> ProjectIds]
    /\ mDatasetIds = [m \in Managers |-> {}]
    /\ mProjects = [m \in Managers |-> NoDir]
    /\ dimHeader = [d \in DimDirs |-> NoFile]
    /\ dimSnap = [d \in DimDirs |-> NoDir]
    /\ regRet = [mgr |-> "M2", op |-> "load", id |-> "none", exc |-> "none",
                 wrote |-> FALSE, locked |-> FALSE]
    /\ calls = 1

\* No call in progress, on an empty registry or on a registry with a
\* registered project that both instances have loaded.
InitSteps ==
    /\ InitProjVars \/ RegisteredAndLoaded
    /\ IdleLock
    /\ InitSerVars
    /\ InitStepVars
    /\ InitResolveVars
    /\ InitFnVars

NextSteps ==
    \/ \E m \in Managers : calls < MaxStepCalls /\ StepLoad(m)
    \/ \E m \in Managers : StepListProjects(m)
    \/ \E m \in Managers : StepListDatasets(m)
    \/ \E m \in Managers, config \in ProjectConfigFiles, msg \in LogMessages :
           calls < MaxStepCalls /\ BeginRegisterProject(m, config, msg)
    \/ \E m \in Managers, config \in ProjectConfigFiles, dimensions \in BOOLEAN,
          t \in UpdateTypes, msg \in LogMessages :
              calls < MaxStepCalls /\ BeginUpdateProject(m, config, dimensions, t, msg)
    \/ \E m \in Managers, config \in DatasetConfigFiles, pid \in ProjectIds,
          ok \in BOOLEAN, msg \in LogMessages :
              calls < MaxStepCalls /\ BeginSubmitDataset(m, config, pid, ok, msg)
    \/ \E m \in Managers : StepLoadConfig(m)
    \/ \E m \in Managers : StepMkdir(m)
    \/ \E m \in Managers : StepDump(m)
    \/ \E m \in Managers : StepCopyTree(m)
    \/ \E m \in Managers : StepCache(m)
    \/ \E m \in Managers : StepAddId(m)
    \/ \E m \in Managers : StepPush(m)
    \/ \E m \in Managers : StepReturn(m)
    \/ \E m \in Managers, pid \in ProjectIds :
           calls < MaxStepCalls /\ load_project_config(m, pid)
    \/ \E m \in Managers : StepReadConfig(m)

SpecSteps == InitSteps /\ [][NextSteps]_vars

(***************************************************************************)
(* Part 5: auto_register_dimensions.  It registers the dimensions of a    *)
(* dimension file and then replaces each reference by name in the config  *)
(* data with the id and version of the dimension of that name and type.   *)
(* The dimension manager (register, get_by_id, get_current_version,       *)
(* list_by_name) is a collaborator: a set of registered dimensions, with  *)
(* registration as the Dimension Registrar is specified, all or none.     *)
(***************************************************************************)
\* A key that a dict does not have.
Absent == "absent"
RegisteredDimension(id, name, type, version) ==
    [id |-> id, name |-> name, type |-> type, version |-> version]
\* The dimensions a registry may hold when the call starts; two of them have
\* the same name and type.
KnownDimensions ==
    {RegisteredDimension("a1", "A", "geography", "2.0.0"),
     RegisteredDimension("a2", "A", "geography", "1.0.0"),
     RegisteredDimension("b1", "B", "sector", "1.0.0")}
\* The dimension files: the records that the call registers first.
DimensionFiles ==
    {<<>>, <<[name |-> "B", type |-> "sector"]>>, <<[name |-> "C", type |-> "geography"]>>,
     <<[name |-> "C", type |-> "geography"], [name |-> "C", type |-> "geography"]>>}
\* make_dimension_id: the name in lower case joined to a new uuid, so the
\* i-th record of a file gets an id of its own whatever its name.
NewDimensionId(name, i) ==
    CASE name = "A" -> IF i = 1 THEN "a3" ELSE "a4"
      [] name = "B" -> IF i = 1 THEN "b2" ELSE "b3"
      [] name = "C" -> IF i = 1 THEN "c1" ELSE "c2"
\* An entry of the dimension list of a config: a dict with "type" and with
\* "name", "dimension_id" and "version" present or not.
Reference(name, type, dimension_id, version) ==
    [name |-> name, type |-> type, dimension_id |-> dimension_id, version |-> version]
References ==
    {Reference("A", "geography", Absent, Absent),
     Reference("A", "geography", Absent, "1.0.0"),
     Reference("B", "sector", Absent, Absent),
     Reference("B", "sector", Absent, "0.9.0"),
     Reference("C", "geography", Absent, Absent),
     Reference("B", "sector", "b1", Absent),
     Reference(Absent, "sector", "b1", "1.0.0")}
ConfigDataLists ==
    {<<r>> : r \in References} \cup {<<p[1], p[2]>> : p \in References \X References}

\* dimension_manager.list_by_name(name, dim_type).
list_by_name(registry, name, type) == {d \in registry : d.name = name /\ d.type = type}
\* dimension_manager.register(dimension_file, ...): all or none; a record
\* whose name and type are registered already is refused.
RegisterFile(registry, file) ==
    IF \E i \in DOMAIN file : list_by_name(registry, file[i].name, file[i].type) # {}
    THEN [exc |-> "DSGValueNotRegistered", registry |-> registry, ids |-> {}]
    ELSE [exc |-> "none",
          registry |-> registry \cup
              {RegisteredDimension(NewDimensionId(file[i].name, i), file[i].name,
                                   file[i].type, "1.0.0") : i \in DOMAIN file},
          ids |-> {NewDimensionId(file[i].name, i) : i \in DOMAIN file}]
\* build_name_mapping: (name, type) -> the dimension of these ids that has
\* them; two of the ids with one name and type raise DSGInvalidDimension.
build_name_mapping(registry, dimension_ids) ==
    LET dims == {d \in registry : d.id \in dimension_ids}
    IN  IF \E d1 \in dims, d2 \in dims :
              d1.id # d2.id /\ d1.name = d2.name /\ d1.type = d2.type
        THEN [exc |-> "Duplicate in dimensions file", name_mapping |-> {}]
        ELSE [exc |-> "none", name_mapping |-> dims]
\* fix_dimension(dim, name_mapping): the dict afterwards, or the exception.
fix_dimension(registry, dim, name_mapping) ==
    IF dim.dimension_id # Absent
    THEN [exc |-> "dimension_id cannot be present with name", dim |-> dim]
    ELSE LET mapped == list_by_name(name_mapping, dim.name, dim.type)
             dim_configs == list_by_name(registry, dim.name, dim.type)
         IN  IF mapped # {}
             THEN LET key == CHOOSE d \in mapped : TRUE
                  IN  [exc |-> "none",
                       dim |-> Reference(Absent, dim.type, key.id, key.version)]
             ELSE IF Cardinality(dim_configs) = 0
             THEN [exc |-> "Did not find a dimension", dim |-> [dim EXCEPT !.name = Absent]]
             ELSE IF Cardinality(dim_configs) > 1
             THEN [exc |-> "not supported when there are duplicates",
                   dim |-> [dim EXCEPT !.name = Absent]]
             ELSE LET dim_config == CHOOSE d \in dim_configs : TRUE
                  IN  [exc |-> "none",
                       dim |-> Reference(Absent, dim.type, dim_config.id,
                                         IF dim.version # Absent THEN dim.version
                                         ELSE dim_config.version)]
\* The loop over the config data: every dict with a name is fixed, in
\* order, until one of them raises; the dicts before it stay fixed.
RECURSIVE FixAll(_, _, _, _)
FixAll(registry, data, name_mapping, i) ==
    IF i > Len(data)
    THEN [exc |-> "none", data |-> data]
    ELSE IF data[i].name = Absent
    THEN FixAll(registry, data, name_mapping, i + 1)
    ELSE LET fixed == fix_dimension(registry, data[i], name_mapping)
             updated == [data EXCEPT ![i] = fixed.dim]
         IN  IF fixed.exc # "none"
             THEN [exc |-> fixed.exc, data |-> updated]
             ELSE FixAll(registry, updated, name_mapping, i + 1)

auto_register_dimensions(config_data, dimension_file) ==
    LET registered == RegisterFile(dimRegistry, dimension_file)
        built == build_name_mapping(registered.registry, registered.ids)
        fixed == FixAll(registered.registry, config_data, built.name_mapping, 1)
    IN  /\ resRet = NoResRet
        /\ dimRegistry' = registered.registry
        /\ resRet' = [config_data |-> config_data, dimension_file |-> dimension_file,
                      before |-> dimRegistry,
                      exc |-> IF registered.exc # "none" THEN registered.exc
                              ELSE IF built.exc # "none" THEN built.exc
                              ELSE fixed.exc,
                      data |-> IF registered.exc # "none" \/ built.exc # "none"
                               THEN config_data ELSE fixed.data]
        /\ UNCHANGED <<lockVars, serVars, projVars, stepVars, fnVars>>

\* Any registry of known dimensions; nothing has been resolved.
InitResolve ==
    /\ dimRegistry \in SUBSET KnownDimensions
    /\ resRet = NoResRet
    /\ InitFnVars
    /\ InitProjVars
    /\ IdleLock
    /\ InitSerVars
    /\ InitStepVars

NextResolve ==
    \E config_data \in ConfigDataLists, dimension_file \in DimensionFiles :
        auto_register_dimensions(config_data, dimension_file)

SpecResolve == InitResolve /\ [][NextResolve]_vars

(***************************************************************************)
(* Part 6: functions of their arguments alone.  check_config_id_strict    *)
(* and check_config_id_loose search a config id for a regular expression; *)
(* an id is a sequence of characters.                                      *)
(***************************************************************************)
\* The characters an id is made of here: letters, a digit, the underscore,
\* the dash, the space and the newline.
IdChars == {"a", "Z", "7", "_", "-", " ", "\n"}
\* \w: letters, digits and the underscore.
WordChars == {"a", "Z", "7", "_"}
ConfigIds == UNION {[1..n -> IdChars] : n \in 0..MaxIdLen}
\* re.compile(r"^[...]+$").search(config_id): one or more characters of the
\* class from the start of the string, up to its end or up to a newline
\* that is the last character of the string.
RegexSearch(class, config_id) ==
    \E k \in 1..Len(config_id) :
        /\ \A i \in 1..k : config_id[i] \in class
        /\ \/ k = Len(config_id)
           \/ k = Len(config_id) - 1 /\ config_id[Len(config_id)] = "\n"
FnRet(fn, exc) == [fn |-> fn, exc |-> exc]

check_config_id_strict ==
    /\ fnRet = NoFnRet
    /\ fnRet' = FnRet("check_config_id_strict",
                      IF RegexSearch(WordChars, fnArgs) THEN "none" ELSE "ValueError")
    /\ UNCHANGED fnArgs
    /\ UNCHANGED <<lockVars, serVars, projVars, stepVars, resolveVars>>

check_config_id_loose ==
    /\ fnRet = NoFnRet
    /\ fnRet' = FnRet("check_config_id_loose",
                      IF RegexSearch(WordChars \cup {"-"}, fnArgs)
                      THEN "none" ELSE "ValueError")
    /\ UNCHANGED fnArgs
    /\ UNCHANGED <<lockVars, serVars, projVars, stepVars, resolveVars>>

\* Any id of up to MaxIdLen characters, not checked yet.
InitIds ==
    /\ fnArgs \in ConfigIds
    /\ fnRet = NoFnRet
    /\ InitProjVars
    /\ IdleLock
    /\ InitSerVars
    /\ InitStepVars
    /\ InitResolveVars

NextIds ==
    \/ check_config_id_strict
    \/ check_config_id_loose

SpecIds == InitIds /\ [][NextIds]_vars

\* DatetimeRange: datetimes are whole days from an origin and a timedelta
\* is a number of days; day 3 is the 29th of February of a leap year.
Feb29 == {3}
\* strptime(year, "%Y"): the first of January of the leap year and of the
\* two years after it.
YearStarts == {-56, 310, 675}
StrFormats == {"%Y", "%Y-%m-%d"}
Days365 == 365
Frequencies == (1..MaxFrequency) \cup {Days365}
Periods == {"period_ending", "period_beginning", "instantaneous"}
LeapDayAdjustments == {"drop_dec31", "drop_feb29", "drop_jan1"}
\* _check_time_ranges on one parsed range: with "%Y" the frequency must be
\* 365 days; otherwise (end - start) % frequency must be zero, and "%" of
\* a negative timedelta is not negative, so an end before the start passes.
check_time_ranges(r) ==
    IF r.str_format = "%Y"
    THEN r.frequency = Days365
    ELSE (r.end - r.start) % r.frequency = 0
\* The ranges that _check_time_ranges lets through.
DatetimeRanges ==
    {r \in [str_format : {"%Y"}, start : YearStarts, end : YearStarts,
            frequency : Frequencies]
        \cup [str_format : {"%Y-%m-%d"}, start : 0..MaxTime, end : 0..MaxTime,
              frequency : Frequencies] : check_time_ranges(r)}
\* iter_time_range from cur on: "while cur < end", Feb 29 skipped on request.
RECURSIVE iter_time_range(_, _, _, _)
iter_time_range(cur, end, frequency, leap_day_adjustment) ==
    IF cur < end
    THEN (IF leap_day_adjustment = "drop_feb29" /\ cur \in Feb29 THEN <<>> ELSE <<cur>>)
             \o iter_time_range(cur + frequency, end, frequency, leap_day_adjustment)
    ELSE <<>>

list_time_range(period, leap_day_adjustment) ==
    LET end == IF period = "period_ending" THEN fnArgs.end + fnArgs.frequency
               ELSE fnArgs.end
    IN  /\ fnRet = NoFnRet
        /\ fnRet' = [fn |-> "list_time_range", period |-> period,
                     leap_day_adjustment |-> leap_day_adjustment,
                     list |-> iter_time_range(fnArgs.start, end, fnArgs.frequency,
                                              leap_day_adjustment)]
        /\ UNCHANGED fnArgs
        /\ UNCHANGED <<lockVars, serVars, projVars, stepVars, resolveVars>>

\* Any valid range, not listed yet.
InitTime ==
    /\ fnArgs \in DatetimeRanges
    /\ fnRet = NoFnRet
    /\ InitProjVars
    /\ IdleLock
    /\ InitSerVars
    /\ InitStepVars
    /\ InitResolveVars

NextTime ==
    \E period \in Periods, leap_day_adjustment \in LeapDayAdjustments :
        list_time_range(period, leap_day_adjustment)

SpecTime == InitTime /\ [][NextTime]_vars

(***************************************************************************)
(* Claims about the lock-file protocol, checked under SpecLock.            *)
(***************************************************************************)
SameOwner(id, f) ==
    /\ f # NoFile
    /\ Contents(f).uuid = id.uuid
    /\ Contents(f).username = id.username

\* C1 (as claimed): a make_lock(path) of B that runs wholly while a caller A
\* of another (uuid, user) is inside its scope on that path never reaches B's
\* guarded block; and a make_lock on a configuration lock path that runs
\* while every other caller is outside make_lock does not fail on the lock.
C1_MutualExclusion ==
    \A b \in Callers :
        /\ pc[b] = "inside" => overlap[b] = {}
        /\ (pc[b] = "finally" /\ alone[b] /\ cpath[b] = ConfigLock)
              => pending[b] # "DSGRegistryLockError"

\* C3: when a make_lock scope that was entered has been exited (by return
\* or by an exception of the guarded block), make_lock has left no lock file
\* of that caller at the path.
C3_ScopeExitReleases ==
    (ret.op = "make_lock" /\ ret.entered)
        => ~SameOwner(ident[ret.caller], ret.left)

\* C3 witness: a scope that was entered has been left by an exception of the
\* guarded block while the caller's own lock file was at the path.
C3_Witness ==
    /\ ret.op = "make_lock"
    /\ ret.entered
    /\ ret.exc = "BodyError"
    /\ SameOwner(ident[ret.caller], ret.saw)

\* C4 (as claimed): remove_lock(path, force=False) on an existing lock file
\* removes it when uuid and username both equal the caller's, and otherwise
\* raises a lock error and leaves the file; with force=True it removes it.
C4_RemoveOnlyOwner ==
    (ret.op = "remove_lock" /\ ret.saw # NoFile)
        => IF ret.force \/ SameOwner(ident[ret.caller], ret.saw)
           THEN ret.left = NoFile /\ ret.exc = "none"
           ELSE ret.left = ret.saw /\ ret.exc = "DSGRegistryLockError"

\* C5 (as claimed): no lock file is ever written at a path whose directory is
\* not configs/.locks, and make_lock / check_lock on such a path ends in an
\* error without entering the guarded block.
C5_OnlyConfigLocks ==
    /\ \A p \in LockPaths :
          RelativeParent(p) # <<"configs/.locks">> => lockfile[p] = NoFile
    /\ (ret.op \in {"make_lock", "check_lock"}
          /\ RelativeParent(ret.path) # <<"configs/.locks">>)
          => (~ret.entered /\ ret.exc \in {"DSGMakeLockError", "AssertionError"})

(***************************************************************************)
(* Claims about serialize, checked under SpecSer.                          *)
(***************************************************************************)
\* The config file or a destination data file of the call was already there.
DestinationExisted ==
    \/ serRet.before[ConfigFilename] # NoFile
    \/ \E i \in DOMAIN serRet.cfg.single :
          serRet.before[Basename(serRet.cfg.single[i])] # NoFile
    \/ \E i \in DOMAIN serRet.cfg.multi :
          serRet.before[Basename(serRet.cfg.multi[i])] # NoFile

\* C7 (as claimed): serialize with force=False into a directory where the
\* config file or a destination data file exists raises DSGInvalidOperation
\* and leaves every file of the directory as it was.
C7_NoPartialWrite ==
    (serRet.op # "none" /\ ~serRet.force /\ DestinationExisted)
        => (serRet.exc = "DSGInvalidOperation" /\ dirFiles = serRet.before)
(***************************************************************************)
(* Claims about RegistryManager, checked under SpecReg.                    *)
(***************************************************************************)
\* C2: every RegistryManager call that wrote to the registry ran while the
\* configuration lock file existed.
C2_WritesHoldLock == regRet.wrote => regRet.locked

\* The version directories of all three kinds of entity, as one function.
Snapshots ==
    [kind \in {"project", "dataset", "dimension"} |->
        CASE kind = "project" -> projSnap
          [] kind = "dataset" -> dsSnap
          [] kind = "dimension" -> dimSnap]
WritingOps == {"register_project", "register_dimension", "update_project", "submit_dataset"}

\* C6: a register, update or submit call leaves every file of every existing
\* version directory as it was.
C6_SnapshotsImmutable ==
    [][regRet'.op \in WritingOps =>
          \A kind \in DOMAIN Snapshots : \A id \in DOMAIN Snapshots[kind] :
              \A v \in DOMAIN Snapshots[kind][id] :
                  /\ v \in DOMAIN Snapshots'[kind][id]
                  /\ Snapshots'[kind][id][v] = Snapshots[kind][id][v]]_vars

\* C8: a register_project call for a project id whose header another
\* manager's register_project has already written raises, and leaves that
\* header and the project's version directories as they were.
C8_SecondRegisterFails ==
    [][\A p \in ProjectIds :
          ( /\ regRet'.op = "register_project"
            /\ regRet'.id = p
            /\ projHeader[p] # NoFile
            /\ Contents(projHeader[p]).registration_history[1].submitter
                   # Submitter(regRet'.mgr) )
          => ( /\ regRet'.exc = "ValueError"
               /\ projHeader'[p] = projHeader[p]
               /\ projSnap'[p] = projSnap[p] )]_vars

\* The registration histories of all headers in the registry.
Histories ==
    {Contents(projHeader[p]).registration_history :
        p \in {q \in ProjectIds : projHeader[q] # NoFile}}
    \cup {Contents(dsHeader[d]).registration_history :
        d \in {e \in DatasetIds : dsHeader[e] # NoFile}}
    \cup {Contents(dimHeader[d]).registration_history :
        d \in {e \in DimDirs : dimHeader[e] # NoFile}}

\* C9: in every header the versions of the registration history are strictly
\* increasing in (major, minor, patch) order.
C9_HistoryIncreasing ==
    \A h \in Histories :
        \A i \in 1..(Len(h) - 1) : VersionLess(h[i].version, h[i + 1].version)

\* A project updated twice: its history holds three records, the last one
\* written by the update_project call that has just returned.
C9_Witness ==
    /\ regRet.op = "update_project"
    /\ regRet.exc = "none"
    /\ \E p \in ProjectIds :
          /\ projHeader[p] # NoFile
          /\ Len(Contents(projHeader[p]).registration_history) = 3

\* new is old with exactly one record appended.
AppendedOne(old, new) ==
    /\ Len(new) = Len(old) + 1
    /\ SubSeq(new, 1, Len(old)) = old

\* C10: a successful update_project, and a successful register_dimension
\* that adds a version to a registered dimension, keep every record of the
\* header's registration history and append exactly one.
C10_HistoryAppendOnly ==
    [][regRet'.exc = "none" =>
          /\ \A p \in ProjectIds :
                (regRet'.op = "update_project" /\ regRet'.id = p)
                => AppendedOne(Contents(projHeader[p]).registration_history,
                               Contents(projHeader'[p]).registration_history)
          /\ \A d \in DimDirs :
                ( /\ regRet'.op = "register_dimension"
                  /\ dimHeader[d] # NoFile
                  /\ DOMAIN dimSnap'[d] # DOMAIN dimSnap[d] )
                => AppendedOne(Contents(dimHeader[d]).registration_history,
                               Contents(dimHeader'[d]).registration_history)]_vars

(***************************************************************************)
(* Claims about dimension registration, checked under SpecDim.             *)
(***************************************************************************)
\* The dimension directories that hold at least one version.
RegisteredDims == {d \in DimDirs : DOMAIN dimSnap[d] # {}}

\* C11: registration of a file of dimension records is all-or-none: when a
\* call fails on any record of the file, whatever its position, no header
\* and no version directory of the dimension registry has changed.
C11_BatchAllOrNone ==
    [][regRet'.op = "register_dimension" /\ regRet'.exc # "none"
          => dimHeader' = dimHeader /\ dimSnap' = dimSnap]_vars

\* The names under which the versions of a dimension directory were stored.
StoredNames(d) == {Contents(dimSnap[d][v]).name : v \in DOMAIN dimSnap[d]}

\* C12: registering, without upgrade, a record whose (type, name) is already
\* registered fails with the duplicate error, and the registry keeps the
\* same registered ids and the same versions of that dimension.
C12_DuplicateRejected ==
    [][\A item \in DimensionItems, order \in ListdirOrders :
          LET dir == <<item.type, assign_dimension_id(item.name)>>
          IN  (/\ ~item.upgrade
               /\ item.name \in StoredNames(dir)
               /\ register_dimension("M1", <<item>>, order))
              => /\ regRet'.exc = "ValueError"
                 /\ {d \in DimDirs : DOMAIN dimSnap'[d] # {}} = RegisteredDims
                 /\ DOMAIN dimSnap'[dir] = DOMAIN dimSnap[dir]]_vars

\* The log messages stored with the versions of a dimension directory.
StoredLogMessages(d) == {Contents(dimSnap[d][v]).log_message : v \in DOMAIN dimSnap[d]}

\* C13: an upgrade of a registered dimension whose log message differs from
\* that of every prior version registers the next major version (current
\* major + 1, 0, 0); an upgrade whose log message equals that of a prior
\* version fails with the duplicate-log error and writes nothing for that
\* dimension.
C13_UpgradeNextMajor ==
    [][\A item \in DimensionItems, order \in ListdirOrders :
          LET dir == <<item.type, assign_dimension_id(item.name)>>
              current == Contents(dimHeader[dir]).version
          IN  (/\ item.upgrade
               /\ item.name \in StoredNames(dir)
               /\ register_dimension("M1", <<item>>, order))
              => IF item.log_message \in StoredLogMessages(dir)
                 THEN /\ regRet'.exc = "ValueError"
                      /\ dimSnap'[dir] = dimSnap[dir]
                      /\ dimHeader'[dir] = dimHeader[dir]
                 ELSE /\ regRet'.exc = "none"
                      /\ DOMAIN dimSnap'[dir] = DOMAIN dimSnap[dir] \cup {bump_major(current)}
                      /\ Contents(dimHeader'[dir]).version = bump_major(current)]_vars

\* C14: a record that requests upgrade while no dimension of its type and
\* id is registered, neither before the call nor by a preceding record of
\* the file, makes the call fail, and nothing is written for it; whatever
\* other dimensions of the type are registered and whatever precedes it.
C14_UpgradeOfUnregistered ==
    [][\A items \in DimensionBatches, order \in ListdirOrders :
          \A k \in DOMAIN items :
              LET dir == <<items[k].type, assign_dimension_id(items[k].name)>>
              IN  (/\ items[k].upgrade
                   /\ dimSnap[dir] = NoDir
                   /\ \A j \in 1..(k - 1) :
                          <<items[j].type, assign_dimension_id(items[j].name)>> # dir
                   /\ register_dimension("M1", items, order))
                  => /\ regRet'.exc # "none"
                     /\ dimSnap'[dir] = NoDir]_vars

\* C15: a file in which two records have the same type and are assigned the
\* same id is rejected: the call fails, whether or not the records request
\* upgrade and whatever their log messages.
C15_DuplicateIdInBatch ==
    [][\A items \in DimensionBatches, order \in ListdirOrders :
          (/\ \E j, k \in DOMAIN items :
                  /\ j # k
                  /\ items[j].type = items[k].type
                  /\ assign_dimension_id(items[j].name) = assign_dimension_id(items[k].name)
           /\ register_dimension("M1", items, order))
          => regRet'.exc # "none"]_vars

(***************************************************************************)
(* Claims about project registration and dataset submission, checked under *)
(* SpecReg.                                                                *)
(***************************************************************************)
\* C16: register_project of a project id that has no directory in the
\* registry succeeds and yields a header with version 1.0.0, status
\* INITIAL_REGISTRATION, exactly one registration record and a slot
\* UNREGISTERED for every dataset the file declares, whatever status the
\* file carried, and the version directory 1.0.0 and no other.
C16_RegisterProjectResult ==
    [][\A m \in Managers, config \in ProjectConfigFiles, msg \in LogMessages :
          LET pid == config.project_id
          IN  (/\ pid \notin ListDir(projSnap)
               /\ register_project(m, config, msg))
              => /\ regRet'.exc = "none"
                 /\ projHeader'[pid] # NoFile
                 /\ Contents(projHeader'[pid]).version = VersionInfo(1)
                 /\ Contents(projHeader'[pid]).status = INITIAL_REGISTRATION
                 /\ Len(Contents(projHeader'[pid]).registration_history) = 1
                 /\ Contents(projHeader'[pid]).dataset_registries
                        = [x \in DOMAIN config.datasets |-> UNREGISTERED]
                 /\ DOMAIN projSnap'[pid] = {VersionInfo(1)}]_vars

\* C17: register_project of a project id that is registered fails and
\* leaves the header with its history and the version directories of the
\* project unchanged, also when the call is made by the manager whose
\* register_project registered the id.
C17_ReRegisterFails ==
    [][\A m \in Managers, config \in ProjectConfigFiles, msg \in LogMessages :
          LET pid == config.project_id
          IN  (/\ projHeader[pid] # NoFile
               /\ pid \in ListDir(projSnap)
               /\ Contents(projHeader[pid]).registration_history[1].submitter = Submitter(m)
               /\ register_project(m, config, msg))
              => /\ regRet'.exc # "none"
                 /\ projHeader'[pid] = projHeader[pid]
                 /\ projSnap'[pid] = projSnap[pid]]_vars

\* C18: a submit_dataset(P, D) that succeeds while the header of P has the
\* slot of D UNREGISTERED leaves that slot REGISTERED in the header, D
\* REGISTERED in the project config of the header's version, as stored and
\* as the submitting manager loads it afterwards, and the dataset D
\* registered at version 1.0.0.
C18_SubmitRegisters ==
    [][\A m \in Managers, config \in DatasetConfigFiles, pid \in ProjectIds,
         ok \in BOOLEAN, msg \in LogMessages :
          LET did == config.dataset_id
          IN  (/\ projHeader[pid] # NoFile
               /\ RegistryHasDataset(Contents(projHeader[pid]), did, UNREGISTERED)
               /\ submit_dataset(m, config, pid, ok, msg)
               /\ regRet'.exc = "none")
              => LET version == Contents(projHeader'[pid]).version
                     key == <<pid, version>>
                 IN  /\ RegistryHasDataset(Contents(projHeader'[pid]), did, REGISTERED)
                     /\ version \in DOMAIN projSnap'[pid]
                     /\ Contents(projSnap'[pid][version]).datasets[did] = REGISTERED
                     /\ key \in DOMAIN mProjects'[m]
                     /\ Contents(mProjects'[m][key]).datasets[did] = REGISTERED
                     /\ dsHeader'[did] # NoFile
                     /\ Contents(dsHeader'[did]).version = VersionInfo(1)
                     /\ VersionInfo(1) \in DOMAIN dsSnap'[did]]_vars

\* C18 witness: a submit_dataset has succeeded; the header of the project
\* has the slot of the dataset REGISTERED and the dataset is at 1.0.0.
C18_Witness ==
    /\ regRet.op = "submit_dataset"
    /\ regRet.exc = "none"
    /\ \E pid \in ProjectIds :
           /\ projHeader[pid] # NoFile
           /\ RegistryHasDataset(Contents(projHeader[pid]), regRet.id, REGISTERED)
    /\ dsHeader[regRet.id] # NoFile
    /\ Contents(dsHeader[regRet.id]).version = VersionInfo(1)

\* Project pid declares dataset did: the header has a slot for it, or the
\* project config of the header's version lists it.
Declares(pid, did) ==
    \/ did \in DOMAIN Contents(projHeader[pid]).dataset_registries
    \/ /\ Contents(projHeader[pid]).version \in DOMAIN projSnap[pid]
       /\ ConfigHasDataset(Contents(projSnap[pid][Contents(projHeader[pid]).version]), did)

\* C19: submit_dataset(P, D) raises ValueError when the header of P has the
\* slot of D REGISTERED (already submitted) and when P does not declare D
\* (not expected), and in both cases it changes no header and no version
\* directory of a project or a dataset, hence no slot status.
C19_SubmitRejected ==
    [][\A m \in Managers, config \in DatasetConfigFiles, pid \in ProjectIds,
         ok \in BOOLEAN, msg \in LogMessages :
          LET did == config.dataset_id
          IN  (/\ projHeader[pid] # NoFile
               /\ \/ RegistryHasDataset(Contents(projHeader[pid]), did, REGISTERED)
                  \/ ~Declares(pid, did)
               /\ submit_dataset(m, config, pid, ok, msg))
              => /\ regRet'.exc = "ValueError"
                 /\ UNCHANGED registryFiles]_vars

\* C20: submit_dataset(P, D) with valid mappings, by a manager that knows
\* P, for a dataset D that already has an entry in the dataset registry and
\* that P declares with the slot UNREGISTERED, succeeds: the header and the
\* version directories of D stay as they are and the slot of D in the
\* header of P becomes REGISTERED.
C20_SubmitKnownDataset ==
    [][\A m \in Managers, config \in DatasetConfigFiles, pid \in ProjectIds,
         msg \in LogMessages :
          LET did == config.dataset_id
          IN  (/\ pid \in mProjectIds[m]
               /\ projHeader[pid] # NoFile
               /\ RegistryHasDataset(Contents(projHeader[pid]), did, UNREGISTERED)
               /\ Contents(projHeader[pid]).version \in DOMAIN projSnap[pid]
               /\ ConfigHasDataset(
                      Contents(projSnap[pid][Contents(projHeader[pid]).version]), did)
               /\ dsHeader[did] # NoFile
               /\ did \in ListDir(dsSnap)
               /\ submit_dataset(m, config, pid, TRUE, msg))
              => /\ regRet'.exc = "none"
                 /\ dsHeader'[did] = dsHeader[did]
                 /\ dsSnap'[did] = dsSnap[did]
                 /\ RegistryHasDataset(Contents(projHeader'[pid]), did, REGISTERED)]_vars

(***************************************************************************)
(* Claims about dataset slots and project status, checked under SpecReg    *)
(* and SpecSubmit.                                                         *)
(***************************************************************************)
\* The header file h exists and has the slot of dataset d REGISTERED.
SlotRegistered(h, d) == h # NoFile /\ RegistryHasDataset(Contents(h), d, REGISTERED)

\* The dimension references of the project config that the header file h
\* names as current, among the version directories dir.
CurrentDimensions(h, dir) == Contents(dir[Contents(h).version]).dimensions

\* C21: a slot of a project header is REGISTERED after a step only if the
\* step is a successful submit_dataset of that dataset, or the slot was
\* REGISTERED before and the step is neither a successful remove_dataset of
\* the dataset nor a successful update_project that changes the dimension
\* references of the project; register_project, update_project and load
\* never set a slot to REGISTERED.
C21_RegisteredOnlyBySubmit ==
    [][\A p \in ProjectIds, d \in DatasetIds :
          SlotRegistered(projHeader'[p], d)
          => \/ /\ regRet'.op = "submit_dataset"
                /\ regRet'.id = d
                /\ regRet'.exc = "none"
             \/ /\ SlotRegistered(projHeader[p], d)
                /\ ~(/\ regRet'.op = "remove_dataset"
                     /\ regRet'.id = d
                     /\ regRet'.exc = "none")
                /\ ~(/\ regRet'.op = "update_project"
                     /\ regRet'.id = p
                     /\ regRet'.exc = "none"
                     /\ CurrentDimensions(projHeader'[p], projSnap'[p])
                            # CurrentDimensions(projHeader[p], projSnap[p]))]_vars

\* C22: after a successful remove_dataset(D) no project header has the slot
\* of D REGISTERED: every project that had it REGISTERED has it UNREGISTERED.
C22_RemoveResetsSlots ==
    [][\A d \in DatasetIds :
          (regRet'.op = "remove_dataset" /\ regRet'.id = d /\ regRet'.exc = "none")
          => \A p \in ProjectIds :
                /\ ~SlotRegistered(projHeader'[p], d)
                /\ SlotRegistered(projHeader[p], d)
                   => RegistryHasDataset(Contents(projHeader'[p]), d, UNREGISTERED)]_vars

\* C23: after a successful update_project that changes the dimensions of the
\* project, no dataset slot of its header is REGISTERED; a status of COMPLETE
\* has become IN_PROGRESS and any other status is as it was.
C23_UpdateInvalidatesSlots ==
    [][\A p \in ProjectIds :
          (/\ regRet'.op = "update_project" /\ regRet'.id = p /\ regRet'.exc = "none"
           /\ CurrentDimensions(projHeader'[p], projSnap'[p])
                  # CurrentDimensions(projHeader[p], projSnap[p]))
          => /\ \A d \in DatasetIds : ~SlotRegistered(projHeader'[p], d)
             /\ Contents(projHeader'[p]).status =
                    IF Contents(projHeader[p]).status = COMPLETE
                    THEN IN_PROGRESS
                    ELSE Contents(projHeader[p]).status]_vars

\* The project file differs from the current snapshot of project p in its
\* description and in nothing else that the registry records.
DescriptionOnly(config, p) ==
    /\ config.project_id = p
    /\ projHeader[p] # NoFile
    /\ Contents(projHeader[p]).version \in DOMAIN projSnap[p]
    /\ LET current == Contents(projSnap[p][Contents(projHeader[p]).version])
       IN  /\ config.description # current.description
           /\ config.dimensions = current.dimensions
           /\ DOMAIN config.datasets = DOMAIN current.datasets
\* C24: a successful update_project that changes only the description sets
\* the header version to the requested bump of the current version (major:
\* major+1 and 0.0; minor: minor+1 and patch 0; patch: patch+1), and leaves
\* every dataset slot status and the project status as they were.
C24_DescriptionUpdate ==
    [][\A p \in ProjectIds, config \in ProjectConfigFiles, t \in UpdateTypes :
          (/\ DescriptionOnly(config, p)
           /\ \E m \in Managers, dimensions \in BOOLEAN, msg \in LogMessages :
                 update_project(m, config, dimensions, t, msg)
           /\ regRet'.exc = "none")
          => LET old == Contents(projHeader[p])
                 new == Contents(projHeader'[p])
                 v == old.version
             IN  /\ t = "major" => new.version = <<v[1] + 1, 0, 0>>
                 /\ t = "minor" => new.version = <<v[1], v[2] + 1, 0>>
                 /\ t = "patch" => new.version = <<v[1], v[2], v[3] + 1>>
                 /\ new.dataset_registries = old.dataset_registries
                 /\ new.status = old.status]_vars
\* A description-only update of p1 has succeeded while d1 was REGISTERED.
C24_Witness ==
    /\ regRet.op = "update_project" /\ regRet.id = "p1" /\ regRet.exc = "none"
    /\ projHeader["p1"] # NoFile
    /\ Contents(projHeader["p1"]).version # VersionInfo(1)
    /\ Contents(projHeader["p1"]).description = "desc2"
    /\ Contents(projHeader["p1"]).dataset_registries["d1"] = REGISTERED
    /\ \A v \in DOMAIN projSnap["p1"] : Contents(projSnap["p1"][v]).dimensions = "dims1"

(* Claims about the project status, checked under SpecStatus. *)
\* C25: update_project on a project whose header status is PUBLISHED or
\* DEPRECATED, called on a manager that knows the project, fails with
\* DSGInvalidRegistryState and writes nothing: header and version
\* directories are as before.
C25_UpdateRefusedByStatus ==
    [][\A p \in ProjectIds :
          (/\ projHeader[p] # NoFile
           /\ Contents(projHeader[p]).status \notin ALLOWED_UPDATE_STATUSES
           /\ regRet'.op = "update_project" /\ regRet'.id = p
           /\ p \in mProjectIds[regRet'.mgr])
          => /\ regRet'.exc = "DSGInvalidRegistryState"
             /\ projHeader' = projHeader
             /\ projSnap' = projSnap]_vars

\* The edges of the project status that the lifecycle allows.
StatusEdges ==
    {<<INITIAL_REGISTRATION, IN_PROGRESS>>, <<IN_PROGRESS, COMPLETE>>,
     <<COMPLETE, PUBLISHED>>, <<COMPLETE, IN_PROGRESS>>}
        \cup {<<s, DEPRECATED>> : s \in ALLOWED_UPDATE_STATUSES}
\* C26: a successful register_project leaves the project in
\* INITIAL_REGISTRATION, a successful submit_dataset to a project leaves it
\* IN_PROGRESS, and a step that changes the status of a project follows one
\* of the allowed edges.
C26_StatusLifecycle ==
    [][\A p \in ProjectIds :
          /\ (regRet'.op = "register_project" /\ regRet'.id = p /\ regRet'.exc = "none")
             => Contents(projHeader'[p]).status = INITIAL_REGISTRATION
          /\ (/\ regRet'.op = "submit_dataset" /\ regRet'.exc = "none"
              /\ \E m \in Managers, config \in DatasetConfigFiles, ok \in BOOLEAN,
                    msg \in LogMessages : submit_dataset(m, config, p, ok, msg))
             => Contents(projHeader'[p]).status = IN_PROGRESS
          /\ (/\ projHeader[p] # NoFile /\ projHeader'[p] # NoFile
              /\ Contents(projHeader'[p]).status # Contents(projHeader[p]).status)
             => <<Contents(projHeader[p]).status, Contents(projHeader'[p]).status>>
                    \in StatusEdges]_vars

(* Claims about the order of writes and of syncs, checked under SpecSteps. *)
\* The config document of a version directory is on disk.
SnapshotWritten(tree, id, version) ==
    LET dir == IF tree = "projects" THEN projSnap[id] ELSE dsSnap[id]
    IN  version \in DOMAIN dir /\ dir[version] # NoFile
\* C27: within register_project, update_project and submit_dataset every
\* write comes after the validation of the call, and when registry.toml is
\* written the config document of the version it records is already written.
C27_SnapshotBeforeHeader ==
    [][\A m \in Managers :
          /\ (StepMkdir(m) \/ StepDump(m) \/ StepCopyTree(m))
             => /\ wlog[m] # <<>>
                /\ wlog[m][1].kind = "validate"
          /\ (/\ NextStmt(m, "dump")
              /\ Head(wcall[m].todo).file = "header"
              /\ StepDump(m))
             => SnapshotWritten(Head(wcall[m].todo).tree, Head(wcall[m].todo).id,
                                Head(wcall[m].todo).version)]_vars

\* C28: a reader running beside a writer never observes a half-written
\* version: load_project_config of a project that the reader's instance
\* lists finds registry.toml and the config document of the version it names.
C28_ReaderSeesWholeVersion ==
    [][\A m \in Managers, p \in ProjectIds :
          p \in mProjectIds[m]
          => /\ load_project_config(m, p) => wcall'[m] # NoCall
             /\ (StepReadConfig(m) /\ wcall[m].id = p) => regRet'.exc = "none"]_vars

\* The statements that change the registry directory.
WriteKinds == {"mkdir", "header", "snapshot", "copy_tree"}
\* C29: RegistryManager.load syncs from the remote store before it reads the
\* directory, and a mutating call that returns without an exception has
\* pushed the registry after the last of its writes.
C29_PullBeforePushAfter ==
    [][/\ \A m \in Managers :
             (StepListProjects(m) \/ StepListDatasets(m))
             => /\ wlog'[m][1].kind = "sync"
                /\ \A i \in DOMAIN wlog'[m] : wlog'[m][i].kind = "listdir" => i > 1
       /\ \A m \in Managers :
             StepReturn(m)
             => LET log == wlog[m]
                IN  \E i \in DOMAIN log :
                       /\ log[i].kind = "sync_push"
                       /\ \A j \in DOMAIN log : log[j].kind \in WriteKinds => j < i]_vars

(* Claims about the resolution of references by name, under SpecResolve. *)
\* The first entry of the config data that is a reference by name.
FirstByName(data) ==
    CHOOSE i \in DOMAIN data :
        /\ data[i].name # Absent
        /\ \A j \in DOMAIN data : j < i => data[j].name = Absent
ResolutionFailures ==
    {"Did not find a dimension", "not supported when there are duplicates"}
\* C30: for the first reference given by (name, type) only: no registered
\* dimension of that name and type: the call fails, not found; more than
\* one: it fails, ambiguous; exactly one: the reference gets its id and,
\* if it carried no version, its current version.  A call that fails in
\* the resolution has registered nothing.
C30_ResolveByName ==
    (/\ resRet # NoResRet
     /\ resRet.exc \notin {"DSGValueNotRegistered", "Duplicate in dimensions file"}
     /\ \E i \in DOMAIN resRet.config_data : resRet.config_data[i].name # Absent)
    => LET i == FirstByName(resRet.config_data)
           ref == resRet.config_data[i]
           matches == list_by_name(dimRegistry, ref.name, ref.type)
       IN  /\ ref.dimension_id = Absent
              => /\ Cardinality(matches) = 0
                    => resRet.exc = "Did not find a dimension"
                 /\ Cardinality(matches) > 1
                    => resRet.exc = "not supported when there are duplicates"
                 /\ Cardinality(matches) = 1
                    => \E d \in matches :
                          /\ resRet.data[i].dimension_id = d.id
                          /\ ref.version = Absent => resRet.data[i].version = d.version
           /\ resRet.exc \in ResolutionFailures => dimRegistry = resRet.before

(* Claims about what an instance lists and about the statuses it keeps.   *)
\* C31: after a project is registered at version 1.0.0 and one dataset is
\* successfully submitted to it, the registry shows the project at version
\* 1.1.0 and the dataset at version 1.0.0.
C31_VersionsAfterSubmit ==
    [][\A p \in ProjectIds, d \in DatasetIds :
          (/\ projHeader[p] # NoFile
           /\ Contents(projHeader[p]).version = VersionInfo(1)
           /\ \A x \in DatasetIds : ~SlotRegistered(projHeader[p], x)
           /\ regRet'.op = "submit_dataset" /\ regRet'.id = d /\ regRet'.exc = "none"
           /\ \E m \in Managers, config \in DatasetConfigFiles, ok \in BOOLEAN,
                 msg \in LogMessages : submit_dataset(m, config, p, ok, msg))
          => /\ Contents(projHeader'[p]).version = <<1, 1, 0>>
             /\ Contents(dsHeader'[d]).version = <<1, 0, 0>>]_vars

(* Claims about functions of their arguments, under SpecIds and SpecTime. *)
\* A non-empty string made only of the characters of a set.
MadeOf(chars, id) == Len(id) > 0 /\ \A i \in 1..Len(id) : id[i] \in chars
\* C32: check_config_id_strict accepts an id exactly when it is a non-empty
\* string of letters, digits and underscores, check_config_id_loose exactly
\* when it is a non-empty string of letters, digits, underscores and
\* dashes; every other string raises ValueError.
C32_ConfigIdSyntax ==
    /\ fnRet.fn = "check_config_id_strict"
       => fnRet.exc = IF MadeOf({"a", "Z", "7", "_"}, fnArgs) THEN "none" ELSE "ValueError"
    /\ fnRet.fn = "check_config_id_loose"
       => fnRet.exc = IF MadeOf({"a", "Z", "7", "_", "-"}, fnArgs)
                      THEN "none" ELSE "ValueError"

\* The timestamps start, start + frequency, ..., end; none when the end is
\* before the start.
DateRange(r) ==
    IF r.end < r.start THEN <<>>
    ELSE [i \in 1..((r.end - r.start) \div r.frequency + 1) |->
             r.start + (i - 1) * r.frequency]
\* C33: for a range whose end - start is a whole multiple of its positive
\* frequency, list_time_range returns exactly start, start + frequency,
\* ..., end, end included.
C33_ListTimeRange ==
    (/\ fnRet.fn = "list_time_range"
     /\ fnArgs.frequency > 0
     /\ (fnArgs.end - fnArgs.start) % fnArgs.frequency = 0)
    => fnRet.list = DateRange(fnArgs)

(***************************************************************************)
(* Claims about failed and nested make_lock calls, checked under SpecLock. *)
(***************************************************************************)
\* C34 (as claimed): a make_lock(path) call whose check_lock raised because
\* the lock file at the path records another uuid or another username leaves
\* that file as it is: its finally step neither removes nor rewrites it.
C34_FailedMakeLockKeepsLock ==
    [][\A c \in Callers :
          (/\ pc[c] \in {"finally", "finally_read", "finally_unlink"}
           /\ ~entered[c]
           /\ pending[c] = "DSGRegistryLockError"
           /\ lockfile[cpath[c]] # NoFile
           /\ CheckLockMismatch(ident[c], Contents(lockfile[cpath[c]]))
           /\ \/ MakeLockFinally(c)
              \/ MakeLockFinallyRead(c)
              \/ MakeLockFinallyUnlink(c))
          => lockfile'[cpath[c]] = lockfile[cpath[c]]]_vars

\* C35 (as claimed): while a caller is inside a make_lock(path) scope with
\* its lock file at the path, no step of another make_lock call (its write or
\* the unlink of its finally) takes that away: afterwards the file still exists and records
\* the caller's uuid and username.  The other call may be a second scope of
\* the same identity, or one that passed check_lock before the file was
\* written.
C35_InsideHoldsLock ==
    [][\A c \in Callers, d \in Callers :
          (/\ c # d
           /\ pc[c] = "inside"
           /\ SameOwner(ident[c], lockfile[cpath[c]])
           /\ (MakeLockWrite(d) \/ MakeLockFinallyUnlink(d)))
          => SameOwner(ident[c], lockfile'[cpath[c]])]_vars

(***************************************************************************)
(* Claims about the id lists and the header statuses, checked under        *)
(* SpecReg.                                                                *)
(***************************************************************************)
ListedOps == {"register_project", "submit_dataset", "remove_project", "remove_dataset"}

\* C36 (as claimed): a register_project, submit_dataset, remove_project or
\* remove_dataset call that succeeds on a manager whose list_projects() and
\* list_datasets() were exactly the ids with a directory leaves them so (a
\* newly registered id is listed, a removed id is not); and remove_project or
\* remove_dataset of an id that has no directory raises ValueError.
C36_ListsMatchDirectories ==
    [][\A m \in Managers :
          (regRet'.mgr = m /\ regRet'.op \in ListedOps /\ calls' = calls + 1)
          => /\ (/\ regRet'.exc = "none"
                 /\ list_projects(m) = ListDir(projSnap)
                 /\ list_datasets(m) = ListDir(dsSnap))
                => /\ list_projects(m)' = ListDir(projSnap')
                   /\ list_datasets(m)' = ListDir(dsSnap')
             /\ (regRet'.op = "remove_project" /\ regRet'.id \notin ListDir(projSnap))
                => regRet'.exc = "ValueError"
             /\ (regRet'.op = "remove_dataset" /\ regRet'.id \notin ListDir(dsSnap))
                => regRet'.exc = "ValueError"]_vars

\* The statuses of config agree with the header's on every dataset that both
\* of them declare.
SameStatuses(registry, config) ==
    \A d \in DOMAIN registry.dataset_registries \cap DOMAIN config.datasets :
        registry.dataset_registries[d] = config.datasets[d]

\* C37 (as claimed): after every completed call, for every project with a
\* header, the dataset statuses of the header equal those of the project
\* config in the version directory of the header's version, and those of the
\* ProjectConfig that the calling manager has cached for that version.
C37_HeaderMatchesSnapshot ==
    \A p \in ProjectIds :
        projHeader[p] # NoFile =>
            LET registry == Contents(projHeader[p])
                key == <<p, registry.version>>
            IN  /\ registry.version \in DOMAIN projSnap[p]
                   => SameStatuses(registry, Contents(projSnap[p][registry.version]))
                /\ \A m \in Managers :
                      (regRet.mgr = m /\ key \in DOMAIN mProjects[m])
                      => SameStatuses(registry, Contents(mProjects[m][key]))

(***************************************************************************)
(* Claims about repeated upgrades of a dimension, checked under            *)
(* SpecUpgrade.                                                            *)
(***************************************************************************)
\* C38 (as claimed): an upgrade of a dimension that has the version
\* directories V registers a version greater, in (major, minor, patch) order,
\* than every version of V, and leaves every directory of V as it was.
C38_UpgradeAboveAll ==
    [][(/\ regRet'.op = "register_dimension"
        /\ regRet'.exc = "none"
        /\ calls' = calls + 1
        /\ DOMAIN dimSnap[UpgradedDir] # {})
       => LET V == DOMAIN dimSnap[UpgradedDir]
              registered == Contents(dimHeader'[UpgradedDir]).version
          IN  /\ \A v \in V : VersionLess(v, registered)
              /\ \A v \in V : /\ v \in DOMAIN dimSnap'[UpgradedDir]
                              /\ dimSnap'[UpgradedDir][v] = dimSnap[UpgradedDir][v]]_vars
====
